---- MODULE Spec2Model ----
(***************************************************************************)
(* Device synchronization cache of dinodia-mobile.                         *)
(*                                                                         *)
(* The model follows src/src/store/deviceStore.ts (module-level            *)
(* memoryCache / inFlight maps, the useDevices hook, the cache clears),    *)
(* src/src/store/sessionStore.tsx (setSession / clearSession), the         *)
(* dashboard screens that drive the hook, and the AsyncStorage helpers of  *)
(* src/src/utils/idleTimer.ts (storage.ts section).                        *)
(*                                                                         *)
(* One step of the model is one turn of the JavaScript event loop: a       *)
(* handler runs from the event that starts it to its next await on a       *)
(* network or storage call, together with the promise continuations that   *)
(* the same turn drains.                                                   *)
(***************************************************************************)
EXTENDS Integers, Sequences, FiniteSets, TLC

\* ------------------------------------------------------------------ bounds
MaxNow == 1          \* Date.now() ranges over 0..MaxNow
MaxCalls == 3        \* refreshDevices invocations that have not returned
MaxRequests == 2     \* fetchAndCacheDevices request promises not yet settled
MaxRequestId == 3    \* cap of requestIdRef.current
MaxLoads == 1        \* readFromStorage loads waiting on AsyncStorage
MaxToggles == 1      \* handleToggleMode clears waiting on AsyncStorage
MaxSessionOps == 2   \* clearSession / setSession / handleLogin calls in a run

\* ------------------------------------------------------------- value space
Users == {1, 2}
NoUser == 0
Modes == {"home", "cloud"}
AppStates == {"active", "background"}
\* The lists fetchDevicesForUser can resolve (entity ids of the snapshot).
FetchResults == {<<"light.a">>, <<"light.a", "cover.b">>}
NoError == "null"
FetchError == "Failed to load devices"

cacheKey(userId, mode) == <<userId, mode>>
Keys == {cacheKey(u, m) : u \in Users, m \in Modes}
NoKey == cacheKey(NoUser, "home")

\* DeviceCacheEntry; NoEntry stands for "no entry" (Map.get gives undefined,
\* loadJson gives null): its fields are the hook's defaults [] and null.
NullTime == -1
Entry(devs, t) == [devices |-> devs, updatedAt |-> t]
NoEntry == Entry(<<>>, NullTime)

VARIABLES
    sessionUser,    \* session.user?.id of SessionProvider (NoUser: logged out)
    haMode,         \* haMode of SessionProvider
    sessOp,         \* the clearSession / setSession / handleLogin in progress
    sessionOps,     \* how many of them have been called
    memoryCache,    \* memoryCache: key -> entry
    inFlight,       \* inFlight: key -> request (0: no entry)
    storage,        \* AsyncStorage: key -> persisted entry
    requests,       \* the request promises of fetchAndCacheDevices
    calls,          \* the refreshDevices invocations that have not returned
    loads,          \* mount effects waiting in readFromStorage
    intervals,      \* keys whose setInterval timer of the mount effect is live
    toggles,        \* handleToggleMode invocations waiting in the clear
    devices, lastUpdated, refreshing, error,   \* useState of useDevices
    requestIdRef,   \* requestIdRef.current
    appState,       \* appStateRef.current (AppState.currentState)
    lastTick,       \* what the interval callback did when it last fired
    storageFaulty,  \* whether AsyncStorage calls may reject in this run
    now,            \* Date.now()
    backend,        \* the User / HaConnection rows getUserWithHaConnection reads
    resolution,     \* the getUserWithHaConnection call under study
    gateway,        \* what the resolved connection and its Home Assistant hold
    pipeline,       \* the fetchDevicesForUser call under study
    dispatch,       \* the onPrimaryPress / handleDeviceCommand call under study
    transport       \* the fetchWithTimeout call under study

vars == <<sessionUser, haMode, sessOp, sessionOps, memoryCache, inFlight, storage,
          requests,
          calls, loads, intervals, toggles, devices, lastUpdated, refreshing, error,
          requestIdRef, appState, lastTick, storageFaulty, now,
          backend, resolution, gateway, pipeline, dispatch, transport>>

storeVars == <<sessionUser, haMode, sessOp, sessionOps, memoryCache, inFlight,
               storage, requests, calls, loads, intervals, toggles, devices,
               lastUpdated, refreshing, error, requestIdRef, appState, lastTick,
               storageFaulty, now>>
clientVars == <<dispatch, transport>>
apiVars == <<backend, resolution, gateway, pipeline, clientVars>>
hookVars == <<devices, lastUpdated, refreshing, error, requestIdRef>>
sessionVars == <<sessionUser, haMode, sessOp>>

\* mountedRef.current of the dashboard's hook: RootNavigator shows the App
\* stack (and so the dashboard) exactly while session.user is set.
mounted == sessionUser # NoUser

FreeRequest == [key |-> NoKey, st |-> "free", entry |-> NoEntry]
NoOp == [kind |-> "none", user |-> NoUser, next |-> NoUser, pc |-> "none"]

\* The outcomes an AsyncStorage call can have (TRUE: resolved).
StorageOutcomes == IF storageFaulty THEN {TRUE, FALSE} ELSE {TRUE}

Min(S) == CHOOSE x \in S : \A y \in S : x <= y

\* ------------------------------------------------ deviceStore.ts: the store

\* A store that keeps whichever entry carries the later timestamp: the
\* behaviour C7 distinguishes persistCache from.
persistCacheIfNewer(mc, k, entry) ==
    IF mc[k].updatedAt < entry.updatedAt THEN [mc EXCEPT ![k] = entry] ELSE mc

\* persistCache, line 45: memoryCache.set(key, entry), whatever the map holds.
persistCache(mc, k, entry) == [mc EXCEPT ![k] = entry]

\* saveJson / removeKey as AsyncStorage applies them when the call resolves;
\* a rejected call leaves the stored value as it was (the callers swallow it).
saveJson(st, k, entry, ok) == IF ok THEN [st EXCEPT ![k] = entry] ELSE st
removeKey(st, k, ok) == IF ok THEN [st EXCEPT ![k] = NoEntry] ELSE st

\* clearDeviceCacheForUserAndMode up to its await, lines 200-202.
ClearMemory(mc, k) == [mc EXCEPT ![k] = NoEntry]
\* A delete that leaves the entry in the map: the behaviour C27
\* distinguishes inFlight.delete(key) from.
keepInFlight(inf, k) == inf
\* inFlight.delete(key), lines 71 and 202.
ClearInFlight(inf, k) == [inf EXCEPT ![k] = 0]

\* The part of the state refreshDevices touches before its first await.
HookState == [calls |-> calls, requests |-> requests, inFlight |-> inFlight,
              requestIdRef |-> requestIdRef, refreshing |-> refreshing]

FreeRequests(S) == {r \in 1..MaxRequests : S.requests[r].st = "free"}

\* Whether the model has room for one more refreshDevices call on key k.
CanRefresh(S, k, silent) ==
    /\ Len(S.calls) < MaxCalls
    /\ S.inFlight[k] # 0 \/ FreeRequests(S) # {}
    /\ silent \/ S.requestIdRef < MaxRequestId

\* fetchAndCacheDevices up to `await request` (lines 54-69): the request the
\* caller awaits is the in-flight one of the key if the map has one, else a
\* new request, registered in inFlight in the same turn.
fetchAndCacheDevices(S, k) ==
    LET ongoing == S.inFlight[k]
        r == Min(FreeRequests(S))
    IN IF ongoing # 0
       THEN [requests |-> S.requests, inFlight |-> S.inFlight, req |-> ongoing]
       ELSE [requests |-> [S.requests EXCEPT ![r] =
                              [key |-> k, st |-> "net", entry |-> NoEntry]],
             inFlight |-> [S.inFlight EXCEPT ![k] = r],
             req |-> r]

\* refreshDevices up to `await fetchAndCacheDevices` (lines 113-125).
\* currentRequestId is null exactly for a background call; reqId 0 stands for it.
refreshDevices(S, k, silent) ==
    LET nextId == S.requestIdRef + 1
        F == fetchAndCacheDevices(S, k)
    IN [calls |-> Append(S.calls,
                      [key |-> k, silent |-> silent,
                       reqId |-> IF silent THEN 0 ELSE nextId,
                       req |-> F.req, pc |-> "await", live |-> TRUE,
                       at |-> NullTime]),
        requests |-> F.requests,
        inFlight |-> F.inFlight,
        requestIdRef |-> IF silent THEN S.requestIdRef ELSE nextId,
        refreshing |-> IF silent THEN S.refreshing ELSE TRUE]

SetHook(S) ==
    /\ calls' = S.calls
    /\ requests' = S.requests
    /\ inFlight' = S.inFlight
    /\ requestIdRef' = S.requestIdRef
    /\ refreshing' = S.refreshing

\* A guard that lets only background calls through: the behaviour C34
\* distinguishes the request-id comparison from.
silentOnly(c) == c.silent

\* The guard of refreshDevices' continuations (lines 126-131, 137): the hook
\* is still mounted and the call is a background call or the newest
\* foreground call.
Current(c) == c.silent \/ c.reqId = requestIdRef
Acts(c) == c.live /\ Current(c)

\* The calls awaiting request r.
AwaitsRequest(c, r) == c.pc = "await" /\ c.req = r
Awaiting(r) == {i \in 1..Len(calls) : AwaitsRequest(calls[i], r)}

\* The calls left when those awaiting request r have returned.
Returned(cs, r) ==
    LET Pending(c) == ~AwaitsRequest(c, r) IN SelectSeq(cs, Pending)

\* The calls without the i-th.
Without(cs, i) ==
    [j \in 1..(Len(cs) - 1) |-> IF j < i THEN cs[j] ELSE cs[j + 1]]

\* -------------------------------------------------- useDevices: its effects

\* Effect cleanup on a key change or unmount (lines 181-184): `cancelled` is set
\* for the effect whose readFromStorage is still waiting.
CancelLoads(ld) == {[l EXCEPT !.cancelled = TRUE] : l \in ld}

\* A cleanup that leaves the timer running: the behaviour C11 distinguishes
\* the effect cleanup from.
leakInterval(ivs, k) == ivs

\* The same cleanup, line 183: clearInterval(interval) of the effect that
\* observed key k.
clearInterval(ivs, k) == ivs \ {k}

\* The intervals after the mount effect has rerun for key k (lines 176-184):
\* the cleanup of the previous run, if the hook was mounted, then setInterval.
Reschedule(ivs, k) ==
    (IF mounted THEN clearInterval(ivs, cacheKey(sessionUser, haMode)) ELSE ivs)
        \cup {k}

\* What the effects do when the hook starts observing key k, given the hook
\* state S they start from and the loads ld left after the cleanup:
\*   lines 154-165  reset devices / lastUpdated / error from memoryCache;
\*   lines 167-174  readFromStorage: with an entry in memoryCache it returns
\*                  at once, and updateState + the background refresh follow
\*                  in the same turn; without one it waits on loadJson;
\*   dashboards     `void refreshDevices()` of the screen's own effect
\*                  (TenantDashboardScreen.tsx 111-114), which runs before the
\*                  continuation of the mount effect.
CanObserve(S, k, ld) ==
    /\ CanRefresh(S, k, FALSE)
    /\ IF memoryCache[k] # NoEntry
       THEN CanRefresh(refreshDevices(S, k, FALSE), k, TRUE)
       ELSE Cardinality(ld \cup {[key |-> k, cancelled |-> FALSE]}) <= MaxLoads

Observe(S, k, ld) ==
    LET cached == memoryCache[k]
        S1 == refreshDevices(S, k, FALSE)
        S2 == IF cached # NoEntry THEN refreshDevices(S1, k, TRUE) ELSE S1
    IN /\ CanObserve(S, k, ld)
       /\ devices' = cached.devices
       /\ lastUpdated' = cached.updatedAt
       /\ error' = NoError
       /\ SetHook(S2)
       /\ loads' = IF cached = NoEntry
                   THEN ld \cup {[key |-> k, cancelled |-> FALSE]}
                   ELSE ld
       /\ intervals' = Reschedule(intervals, k)

\* Unmount of the dashboard: mountedRef.current = false (lines 89-91) for the
\* calls of this hook instance; a later mount is a new instance with new refs.
\* A call of the old instance that still awaits its request does nothing when
\* it continues (lines 126-128, 137, 146), so it is not followed further; one
\* that waits on the catch's saveJson still writes the storage.
Orphan(cs) ==
    LET Saving(c) == c.pc = "save" IN
    [i \in 1..Len(SelectSeq(cs, Saving)) |->
        [SelectSeq(cs, Saving)[i] EXCEPT !.live = FALSE]]

\* The hook state of a new instance (lines 78-83) over the surviving calls.
FreshHook == [HookState EXCEPT !.requestIdRef = 0, !.refreshing = FALSE]

\* The state when the app has started (sessionStore.tsx 29-46, App.tsx): the
\* module-level maps are empty, AsyncStorage holds what earlier runs left, and
\* SessionProvider has restored the stored session of user u, so that the
\* dashboard has mounted on (u, 'home') and its effects have run.
EmptyHook == [calls |-> <<>>,
              requests |-> [r \in 1..MaxRequests |-> FreeRequest],
              inFlight |-> [k \in Keys |-> 0],
              requestIdRef |-> 0, refreshing |-> FALSE]

\* What an earlier run can have left under a device-cache key.
StartSnapshots == {NoEntry, Entry(<<"light.a">>, 0)}

\* A stored value that parses as JSON but is no DeviceCacheEntry: it has a
\* device list and no numeric updatedAt.
MalformedSnapshot == Entry(<<"light.a">>, NullTime)

StoreInit(snapshots, faulty) ==
    LET k == cacheKey(1, "home")
        S == refreshDevices(EmptyHook, k, FALSE)
    IN
    /\ sessionUser = 1
    /\ haMode = "home"
    /\ sessOp = NoOp
    /\ sessionOps = 0
    /\ memoryCache = [x \in Keys |-> NoEntry]
    /\ \E snap \in snapshots :
         storage = [x \in Keys |-> IF x[1] = 1 THEN snap ELSE NoEntry]
    /\ calls = S.calls
    /\ requests = S.requests
    /\ inFlight = S.inFlight
    /\ requestIdRef = S.requestIdRef
    /\ refreshing = S.refreshing
    /\ loads = {[key |-> k, cancelled |-> FALSE]}
    /\ intervals = {k}
    /\ toggles = {}
    /\ devices = <<>>
    /\ lastUpdated = NullTime
    /\ error = NoError
    /\ appState = "active"
    /\ lastTick = "none"
    /\ storageFaulty = faulty
    /\ now = 0

\* No getUserWithHaConnection or fetchDevicesForUser call is followed step by
\* step: the dashboard specifications see a fetch as one request.
Null == "<null>"
ApiIdle ==
    /\ backend = Null
    /\ resolution = Null
    /\ gateway = Null
    /\ pipeline = Null
    /\ dispatch = Null
    /\ transport = Null

InitFrom(snapshots, faulty) == StoreInit(snapshots, faulty) /\ ApiIdle

Init == InitFrom(StartSnapshots, FALSE)

\* The same start over a storage that may also hold a malformed value.
InitMount == InitFrom(StartSnapshots \cup {MalformedSnapshot}, FALSE)

\* The same start in a run where AsyncStorage calls may reject.
InitFaulty == InitFrom(StartSnapshots, TRUE)

\* An interval callback without the app-state guard: the behaviour C10
\* distinguishes the polling from.
IntervalRefreshesAlways(state) == TRUE

\* Whether the interval callback goes on to refresh (line 177).
IntervalRefreshes(state) == state = "active"

\* ------------------------------------------------------------- the actions

\* Date.now() advances.
TimePasses ==
    /\ now < MaxNow
    /\ now' = now + 1
    /\ UNCHANGED <<sessionVars, memoryCache, inFlight, storage, requests, calls,
                   loads, intervals, toggles, hookVars, appState, lastTick, storageFaulty, apiVars, sessionOps>>

\* AppState 'change' listener, lines 95-97.
AppStateChange ==
    /\ \E s \in AppStates \ {appState} : appState' = s
    /\ UNCHANGED <<sessionVars, memoryCache, inFlight, storage, requests, calls,
                   loads, intervals, toggles, hookVars, lastTick, storageFaulty, apiVars, sessionOps, now>>

\* handleRefresh of the dashboards (pull to refresh): refreshDevices().
HandleRefresh ==
    LET k == cacheKey(sessionUser, haMode) IN
    /\ mounted
    /\ CanRefresh(HookState, k, FALSE)
    /\ SetHook(refreshDevices(HookState, k, FALSE))
    /\ UNCHANGED <<sessionVars, memoryCache, storage, loads, intervals, toggles, devices,
                   lastUpdated, error, appState, lastTick, storageFaulty, apiVars, sessionOps, now>>

\* The setInterval callback, lines 176-179, of a live interval: it calls the
\* refreshDevices of the key its effect observed.
PollTick ==
    \E k \in intervals :
    /\ IF IntervalRefreshes(appState)
       THEN /\ CanRefresh(HookState, k, TRUE)
            /\ SetHook(refreshDevices(HookState, k, TRUE))
            /\ lastTick' = "refreshed"
       ELSE /\ UNCHANGED <<calls, requests, inFlight, requestIdRef, refreshing>>
            /\ lastTick' = "skipped"
    /\ UNCHANGED <<sessionVars, memoryCache, storage, loads, intervals, toggles, devices,
                   lastUpdated, error, appState, storageFaulty, apiVars, sessionOps, now>>

\* fetchDevicesForUser resolves (lines 61-63): the entry is stamped with
\* Date.now(), persistCache puts it in memoryCache and waits on saveJson.
FetchSucceeds(r) ==
    /\ requests[r].st = "net"
    /\ \E devs \in FetchResults :
         LET entry == Entry(devs, now) IN
         /\ memoryCache' = persistCache(memoryCache, requests[r].key, entry)
         /\ requests' = [requests EXCEPT ![r].st = "save", ![r].entry = entry]
    /\ UNCHANGED <<sessionVars, inFlight, storage, calls, loads, intervals, toggles, hookVars,
                   appState, lastTick, storageFaulty, apiVars, sessionOps, now>>

\* saveJson of persistCache returns (resolved or rejected, lines 46-50): the
\* request resolves with its entry; the caller that created it runs
\* `finally { inFlight.delete(key) }` (line 71); every refreshDevices call
\* awaiting it continues at lines 126-134 and 146-148.
PersistDone(r) ==
    LET k == requests[r].key
        entry == requests[r].entry
        acting == {i \in Awaiting(r) : Acts(calls[i])}
    IN
    /\ requests[r].st = "save"
    /\ \E ok \in StorageOutcomes : storage' = saveJson(storage, k, entry, ok)
    /\ requests' = [requests EXCEPT ![r] = FreeRequest]
    /\ inFlight' = ClearInFlight(inFlight, k)
    /\ calls' = Returned(calls, r)
    /\ IF acting # {}
       THEN /\ devices' = entry.devices
            /\ lastUpdated' = entry.updatedAt
            /\ error' = NoError
            /\ refreshing' = IF \E i \in acting : ~calls[i].silent
                             THEN FALSE ELSE refreshing
       ELSE UNCHANGED <<devices, lastUpdated, error, refreshing>>
    /\ UNCHANGED <<sessionVars, memoryCache, loads, intervals, toggles, requestIdRef,
                   appState, lastTick, storageFaulty, apiVars, sessionOps, now>>

\* fetchDevicesForUser rejects: the request rejects, line 71 deletes the
\* in-flight entry of the key, and every awaiting refreshDevices call runs its
\* catch (lines 135-144): a mounted, non-superseded call sets the error, puts
\* an empty entry stamped Date.now() in memoryCache and waits on saveJson;
\* any other call returns null at once.
FetchFails(r) ==
    LET k == requests[r].key
        acting == {i \in Awaiting(r) : Acts(calls[i])}
    IN
    /\ requests[r].st = "net"
    /\ requests' = [requests EXCEPT ![r] = FreeRequest]
    /\ inFlight' = ClearInFlight(inFlight, k)
    /\ calls' = Returned([i \in 1..Len(calls) |->
                             IF i \in acting
                             THEN [calls[i] EXCEPT !.pc = "save", !.at = now]
                             ELSE calls[i]], r)
    /\ IF acting # {}
       THEN /\ error' = FetchError
            /\ memoryCache' = persistCache(memoryCache, k, Entry(<<>>, now))
       ELSE UNCHANGED <<error, memoryCache>>
    /\ UNCHANGED <<sessionVars, storage, loads, intervals, toggles, devices, lastUpdated,
                   refreshing, requestIdRef, appState, lastTick, storageFaulty, apiVars, sessionOps, now>>

\* saveJson of the catch's persistCache returns (lines 141-148):
\* updateState(emptyEntry) if still mounted, then the finally block.
CatchPersistDone(i) ==
    LET c == calls[i] IN
    /\ i \in 1..Len(calls)
    /\ c.pc = "save"
    /\ \E ok \in StorageOutcomes :
         storage' = saveJson(storage, c.key, Entry(<<>>, c.at), ok)
    /\ calls' = Without(calls, i)
    /\ IF c.live
       THEN /\ devices' = <<>>
            /\ lastUpdated' = c.at
       ELSE UNCHANGED <<devices, lastUpdated>>
    /\ refreshing' = IF c.live /\ ~c.silent /\ c.reqId = requestIdRef
                     THEN FALSE ELSE refreshing
    /\ UNCHANGED <<sessionVars, memoryCache, inFlight, requests, loads, intervals, toggles,
                   error, requestIdRef, appState, lastTick, storageFaulty, apiVars, sessionOps, now>>

\* A check that takes any stored value that is not null: the behaviour C12
\* distinguishes the validation of readFromStorage from.
anyStored(stored) == stored # NoEntry

\* The validation of readFromStorage, lines 28-32: the value is not null, has
\* a devices array and a numeric updatedAt.
wellFormed(stored) == stored # NoEntry /\ stored.updatedAt # NullTime

\* loadJson as AsyncStorage answers it (idleTimer.ts 22-30); a rejected call is
\* caught by readFromStorage (line 35) and counts as nothing stored.
loadJson(st, k, ok) == IF ok THEN st[k] ELSE NoEntry

\* loadJson of readFromStorage returns (lines 27-40), then the mount effect
\* continues (lines 171-173). A well-formed stored entry goes into memoryCache
\* whether or not the effect was cancelled; anything else counts as no entry.
LoadDone(l) ==
    /\ l \in loads
    /\ \E ok \in StorageOutcomes :
         LET loaded == loadJson(storage, l.key, ok)
             stored == IF wellFormed(loaded) THEN loaded ELSE NoEntry
             S == HookState
         IN
         /\ memoryCache' = IF stored # NoEntry
                           THEN [memoryCache EXCEPT ![l.key] = stored]
                           ELSE memoryCache
         /\ loads' = loads \ {l}
         /\ IF l.cancelled
            THEN UNCHANGED <<calls, requests, inFlight, requestIdRef, refreshing,
                             devices, lastUpdated>>
            ELSE /\ CanRefresh(S, l.key, TRUE)
                 /\ SetHook(refreshDevices(S, l.key, TRUE))
                 /\ IF stored # NoEntry
                    THEN /\ devices' = stored.devices
                         /\ lastUpdated' = stored.updatedAt
                    ELSE UNCHANGED <<devices, lastUpdated>>
    /\ UNCHANGED <<sessionVars, storage, toggles, intervals, error, appState,
                   lastTick, storageFaulty, apiVars, sessionOps, now>>

\* ---------------------------------------------- mode toggle and the session

OtherMode(m) == IF m = "home" THEN "cloud" ELSE "home"

\* handleToggleMode of the dashboards (TenantDashboardScreen.tsx 94-101) up to
\* the await inside clearDeviceCacheForUserAndMode(userId, nextMode).
ToggleMode ==
    LET t == [user |-> sessionUser, mode |-> OtherMode(haMode)]
        k == cacheKey(t.user, t.mode)
    IN
    /\ mounted
    /\ Cardinality(toggles \cup {t}) <= MaxToggles
    /\ t \notin toggles
    /\ toggles' = toggles \cup {t}
    /\ memoryCache' = ClearMemory(memoryCache, k)
    /\ inFlight' = ClearInFlight(inFlight, k)
    /\ UNCHANGED <<sessionVars, storage, requests, calls, loads, intervals, hookVars,
                   appState, lastTick, storageFaulty, apiVars, sessionOps, now>>

\* removeKey of the toggle's clear returns (deviceStore.ts 203-207), then
\* `.then(() => setHaMode(nextMode))`. If the dashboard is mounted and the
\* mode changed, the hook's effects rerun for the new key.
ToggleClearDone(t) ==
    LET k == cacheKey(t.user, t.mode)
        nk == cacheKey(sessionUser, t.mode)
    IN
    /\ t \in toggles
    /\ toggles' = toggles \ {t}
    /\ \E ok \in StorageOutcomes : storage' = removeKey(storage, k, ok)
    /\ haMode' = t.mode
    /\ IF mounted /\ haMode # t.mode
       THEN Observe(HookState, nk, CancelLoads(loads))
       ELSE UNCHANGED <<calls, requests, inFlight, loads, intervals, hookVars>>
    /\ UNCHANGED <<sessionUser, sessOp, memoryCache, appState, lastTick,
                   storageFaulty, apiVars, sessionOps, now>>

\* clearSession up to `await removeKey(SESSION_KEY)` (sessionStore.tsx 58-62):
\* the session user is dropped, so the dashboard unmounts.
ClearSession ==
    /\ mounted
    /\ sessOp = NoOp
    /\ sessionOps < MaxSessionOps
    /\ sessionOps' = sessionOps + 1
    /\ sessOp' = [kind |-> "logout", user |-> sessionUser, next |-> NoUser,
                  pc |-> "session"]
    /\ sessionUser' = NoUser
    /\ haMode' = "home"
    /\ calls' = Orphan(calls)
    /\ loads' = CancelLoads(loads)
    /\ intervals' = clearInterval(intervals, cacheKey(sessionUser, haMode))
    /\ devices' = <<>>
    /\ lastUpdated' = NullTime
    /\ refreshing' = FALSE
    /\ error' = NoError
    /\ requestIdRef' = 0
    /\ UNCHANGED <<memoryCache, inFlight, storage, requests, toggles, appState,
                   lastTick, storageFaulty, apiVars, now>>

\* removeKey(SESSION_KEY) returns (sessionStore.tsx 62-65). It is not inside a
\* try: when it rejects, clearSession rejects and the device cache is left.
\* Otherwise clearAllDeviceCacheForUser starts with mode 'home'.
ClearSessionRemoved ==
    LET k == cacheKey(sessOp.user, "home") IN
    /\ sessOp.kind = "logout"
    /\ sessOp.pc = "session"
    /\ \E ok \in StorageOutcomes :
         IF ok
         THEN /\ memoryCache' = ClearMemory(memoryCache, k)
              /\ inFlight' = ClearInFlight(inFlight, k)
              /\ sessOp' = [sessOp EXCEPT !.pc = "home"]
         ELSE /\ sessOp' = NoOp
              /\ UNCHANGED <<memoryCache, inFlight>>
    /\ UNCHANGED <<sessionUser, haMode, storage, requests, calls, loads, intervals, toggles,
                   hookVars, appState, lastTick, storageFaulty, apiVars, sessionOps, now>>

\* clearAllDeviceCacheForUser (deviceStore.ts 210-215): removeKey of the 'home'
\* clear returns, and the 'cloud' clear runs up to its await.
ClearAllNext ==
    LET kh == cacheKey(sessOp.user, "home")
        kc == cacheKey(sessOp.user, "cloud")
    IN
    /\ sessOp.pc = "home"
    /\ \E ok \in StorageOutcomes : storage' = removeKey(storage, kh, ok)
    /\ memoryCache' = ClearMemory(memoryCache, kc)
    /\ inFlight' = ClearInFlight(inFlight, kc)
    /\ sessOp' = [sessOp EXCEPT !.pc = "cloud"]
    /\ UNCHANGED <<sessionUser, haMode, requests, calls, loads, intervals, toggles, hookVars,
                   appState, lastTick, storageFaulty, apiVars, sessionOps, now>>

\* setSessionState(s); setHaModeState('home') of setSession (sessionStore.tsx
\* 53-54) and what the dashboard does in the same turn: a mount when nobody
\* was logged in, the hook's key-change effects when the key changed.
ApplySession(u) ==
    /\ sessionUser' = u
    /\ haMode' = "home"
    /\ IF ~mounted
       THEN Observe(FreshHook, cacheKey(u, "home"), CancelLoads(loads))
       ELSE IF cacheKey(u, "home") # cacheKey(sessionUser, haMode)
       THEN Observe(HookState, cacheKey(u, "home"), CancelLoads(loads))
       ELSE UNCHANGED <<calls, requests, inFlight, loads, intervals, hookVars>>

\* removeKey of the 'cloud' clear returns: clearAllDeviceCacheForUser is done.
\*   clearSession (line 64):  nothing follows;
\*   setSession (lines 51-54): the new session is applied;
\*   handleLogin (LoginScreen.tsx 35-36): getUserWithHaConnection is awaited.
ClearAllDone ==
    LET kc == cacheKey(sessOp.user, "cloud") IN
    /\ sessOp.pc = "cloud"
    /\ \E ok \in StorageOutcomes : storage' = removeKey(storage, kc, ok)
    /\ CASE sessOp.kind = "logout" ->
              /\ sessOp' = NoOp
              /\ UNCHANGED <<sessionUser, haMode, calls, requests, inFlight, loads, intervals,
                             hookVars>>
         [] sessOp.kind = "switch" ->
              /\ sessOp' = NoOp
              /\ ApplySession(sessOp.next)
         [] sessOp.kind = "login" ->
              /\ sessOp' = [sessOp EXCEPT !.pc = "connection"]
              /\ UNCHANGED <<sessionUser, haMode, calls, requests, inFlight, loads, intervals,
                             hookVars>>
    /\ UNCHANGED <<memoryCache, toggles, appState, lastTick, storageFaulty, apiVars, sessionOps, now>>

\* handleLogin (LoginScreen.tsx 25-37) once loginWithCredentials resolved with
\* user u: clearAllDeviceCacheForUser(user.id) runs up to its first await.
HandleLogin(u) ==
    LET k == cacheKey(u, "home") IN
    /\ ~mounted
    /\ sessOp = NoOp
    /\ sessionOps < MaxSessionOps
    /\ sessionOps' = sessionOps + 1
    /\ sessOp' = [kind |-> "login", user |-> u, next |-> u, pc |-> "home"]
    /\ memoryCache' = ClearMemory(memoryCache, k)
    /\ inFlight' = ClearInFlight(inFlight, k)
    /\ UNCHANGED <<sessionUser, haMode, storage, requests, calls, loads, intervals, toggles,
                   hookVars, appState, lastTick, storageFaulty, apiVars, now>>

\* getUserWithHaConnection returns to handleLogin (LoginScreen.tsx 36-44):
\* resolved, setSession runs (no previous user, so lines 53-54 at once);
\* rejected, the login is abandoned.
LoginConnection ==
    /\ sessOp.kind = "login"
    /\ sessOp.pc = "connection"
    /\ sessOp' = NoOp
    /\ \E found \in BOOLEAN :
         IF found
         THEN ApplySession(sessOp.user)
         ELSE UNCHANGED <<sessionUser, haMode, calls, requests, inFlight, loads, intervals,
                          hookVars>>
    /\ UNCHANGED <<memoryCache, storage, toggles, appState, lastTick,
                   storageFaulty, apiVars, sessionOps, now>>

\* setSession(s) called while user `session.user` is logged in (sessionStore.tsx
\* 48-52): for a different user, clearAllDeviceCacheForUser(previousUserId)
\* runs up to its first await; for the same user (AdminSettingsScreen.tsx 51)
\* the session is applied at once.
SetSession(u) ==
    LET k == cacheKey(sessionUser, "home") IN
    /\ mounted
    /\ sessOp = NoOp
    /\ sessionOps < MaxSessionOps
    /\ sessionOps' = sessionOps + 1
    /\ IF u # sessionUser
       THEN /\ sessOp' = [kind |-> "switch", user |-> sessionUser, next |-> u,
                          pc |-> "home"]
            /\ memoryCache' = ClearMemory(memoryCache, k)
            /\ inFlight' = ClearInFlight(inFlight, k)
            /\ UNCHANGED <<sessionUser, haMode, requests, calls, loads, intervals, hookVars>>
       ELSE /\ ApplySession(u)
            /\ UNCHANGED <<sessOp, memoryCache>>
    /\ UNCHANGED <<storage, toggles, appState, lastTick, storageFaulty, apiVars, now>>

\* ------------------------------------- api/dinodia.ts: fetchDevicesForUser

\* Strings whose characters matter (URLs, entity ids, names, labels) are
\* sequences of tokens; NullStr stands for null / undefined in their place.
NullStr == <<Null>>
RECURSIVE trimStart(_)
trimStart(s) == IF s # <<>> /\ Head(s) = " " THEN trimStart(Tail(s)) ELSE s
RECURSIVE trimEnd(_)
trimEnd(s) ==
    IF s # <<>> /\ s[Len(s)] = " "
    THEN trimEnd(SubSeq(s, 1, Len(s) - 1)) ELSE s
\* String.prototype.trim
trim(s) == trimEnd(trimStart(s))

\* replace(/\/+$/, '')
RECURSIVE stripTrailingSlashes(_)
stripTrailingSlashes(s) ==
    IF s # <<>> /\ s[Len(s)] = "/"
    THEN stripTrailingSlashes(SubSeq(s, 1, Len(s) - 1)) ELSE s

\* A URL choice that ignores the mode: the behaviour C14 distinguishes line
\* 128 from.
homeUrl(conn, mode) == conn.baseUrl

\* part_009 line 128: the URL the mode selects.
modeUrl(conn, mode) == IF mode = "cloud" THEN conn.cloudUrl ELSE conn.baseUrl

\* part_009 line 129: (rawUrl ?? '').trim().replace(/\/+$/, '')
normalizeUrl(rawUrl) ==
    stripTrailingSlashes(trim(IF rawUrl = NullStr THEN <<>> ELSE rawUrl))

\* s.entity_id.split('.')[0] || '' (ha.ts 178).
RECURSIVE beforeDot(_)
beforeDot(s) ==
    IF s = <<>> \/ Head(s) = "." THEN <<>> ELSE <<Head(s)>> \o beforeDot(Tail(s))

\* classifyDeviceByLabel of utils/labelCatalog: the category of the first
\* label the catalogue knows, null when the label set yields none.
Catalog(label) ==
    CASE label \in {<<"Light">>, <<"light">>} -> <<"Light">>
      [] label = <<"Blind">> -> <<"Blind">>
      [] OTHER -> NullStr
RECURSIVE classifyDeviceByLabel(_)
classifyDeviceByLabel(labels) ==
    IF labels = <<>> THEN NullStr
    ELSE IF Catalog(Head(labels)) # NullStr THEN Catalog(Head(labels))
    ELSE classifyDeviceByLabel(Tail(labels))

\* a ?? b
orElse(a, b) == IF a # NullStr THEN a ELSE b

\* Map.get after the rows were Map.set in order: the last row of the entity
\* (ha.ts 172-175, part_009 172-175), as a list of one row, or of none
\* when the entity has no row.
lastRow(rows, id, field) ==
    LET hits == {i \in 1..Len(rows) : rows[i][field] = id} IN
    IF hits = {} THEN <<>>
    ELSE <<rows[CHOOSE i \in hits : \A j \in hits : j <= i]>>

\* row?.field
optional(found, field) == IF found = <<>> THEN NullStr ELSE found[1][field]

\* getDevicesWithMetadata, ha.ts 177-202: one EnrichedDevice per state.
enrich(s, meta) ==
    LET domain == beforeDot(s.entity_id)
        metaEntry == lastRow(meta, s.entity_id, "entity_id")
        NonBlank(l) == trim(l) # <<>>
        labels == IF metaEntry = <<>> THEN <<>>
                  ELSE SelectSeq(metaEntry[1].labels, NonBlank)
        device_id == optional(metaEntry, "device_id")
    IN [entityId |-> s.entity_id,
        name |-> orElse(s.friendly_name, s.entity_id),
        state |-> s.state,
        areaName |-> optional(metaEntry, "area_name"),
        labels |-> labels,
        labelCategory |-> orElse(classifyDeviceByLabel(labels),
                                 classifyDeviceByLabel(<<domain>>)),
        domain |-> domain,
        deviceId |-> IF device_id # NullStr /\ trim(device_id) # <<>>
                     THEN device_id ELSE NullStr]

\* A template call whose failure goes unnoticed: the behaviour C18
\* distinguishes the catch of ha.ts 166-170 from.
templateUnchecked(meta, ok) == meta

\* ha.ts 165-170: the metadata the template call yields, [] when it failed.
templateOrEmpty(meta, ok) == IF ok THEN meta ELSE <<>>

getDevicesWithMetadata(states, meta) ==
    [i \in 1..Len(states) |-> enrich(states[i], meta)]

\* A shaping that lets the gateway values win: the behaviour C17
\* distinguishes the precedence of lines 180-187 from.
gatewayFirst(a, b) == IF b # NullStr THEN b ELSE a

\* override?.x ?? fallback (part_009 180, 181, 187).
overrideFirst(a, b) == orElse(a, b)

\* part_009 178-202: the UIDevice of an EnrichedDevice and its override.
shape(d, overrides) ==
    LET override == lastRow(overrides, d.entityId, "entityId")
        oname == optional(override, "name")
        oarea == optional(override, "area")
        olabel == optional(override, "label")
        labels == IF olabel # NullStr /\ olabel # <<>> THEN <<olabel>> ELSE d.labels
        labelCategory == orElse(classifyDeviceByLabel(labels), d.labelCategory)
        primaryLabel == IF Len(labels) > 0 /\ labels[1] # <<>>
                        THEN labels[1] ELSE NullStr
        areaName == overrideFirst(oarea, d.areaName)
    IN [entityId |-> d.entityId,
        deviceId |-> d.deviceId,
        name |-> overrideFirst(oname, d.name),
        state |-> d.state,
        area |-> areaName,
        areaName |-> areaName,
        labels |-> labels,
        label |-> overrideFirst(olabel, orElse(primaryLabel, labelCategory)),
        labelCategory |-> labelCategory,
        domain |-> d.domain]

\* A filter that also lets devices without an area through: the behaviour
\* C16 distinguishes the tenant filter from.
visibleOrNoArea(d, rules) == d.areaName = NullStr \/ d.areaName \in rules

\* part_009 207-210: areaName !== null && rules.some(r => r.area === areaName).
visibleToTenant(d, rules) == d.areaName # NullStr /\ d.areaName \in rules

\* part_009 177-214: shaping, then the tenant filter.
resolveDevices(enriched, overrides, role, rules) ==
    LET devs == [i \in 1..Len(enriched) |-> shape(enriched[i], overrides)]
        Visible(d) == visibleToTenant(d, rules)
    IN IF role = "TENANT" THEN SelectSeq(devs, Visible) ELSE devs

\* The connection rows, gateway answers and override rows a fetch can meet.
Urls == {NullStr, <<>>, <<" ">>, <<"/">>, <<"h">>, <<" ", "h", "/", "/", " ">>}
LightA == <<"light", ".", "a">>
CoverB == <<"cover", ".", "b">>
Kitchen == <<"kitchen">>
Bedroom == <<"bedroom">>
HAStates ==
    <<[entity_id |-> LightA, state |-> "on", friendly_name |-> <<"Lamp">>],
      [entity_id |-> CoverB, state |-> "open", friendly_name |-> NullStr]>>
TemplateMetas ==
    {<<[entity_id |-> LightA, area_name |-> a, labels |-> l, device_id |-> d],
       [entity_id |-> CoverB, area_name |-> b, labels |-> <<>>, device_id |-> NullStr]>> :
       a \in {NullStr, Kitchen},
       l \in {<<>>, <<<<"Blind">>>>, <<<<" ">>, <<"Light">>>>},
       d \in {NullStr, <<" ">>, <<"dev1">>},
       b \in {NullStr, Bedroom}}
DeviceOverrides ==
    {<<>>}
    \cup {<<[entityId |-> LightA, name |-> n, area |-> a, label |-> l]>> :
            n \in {NullStr, <<"Desk">>},
            a \in {NullStr, Bedroom},
            l \in {NullStr, <<>>, <<"Light">>, <<"Reading">>}}
Principals ==
    {[role |-> "ADMIN", rules |-> {}]}
    \cup {[role |-> "TENANT", rules |-> r] : r \in {{}, {Kitchen}, {Kitchen, Bedroom}}}
PlainMeta == CHOOSE m \in TemplateMetas : m[1].area_name = Kitchen /\ m[1].labels = <<>>
                                          /\ m[1].device_id = <<"dev1">> /\ m[2].area_name = Bedroom
Gateways ==
    {[baseUrl |-> b, cloudUrl |-> c, principal |-> [role |-> "ADMIN", rules |-> {}],
      states |-> HAStates, meta |-> PlainMeta, overrides |-> <<>>] :
        b \in Urls, c \in Urls}
    \cup {[baseUrl |-> <<"h">>, cloudUrl |-> NullStr, principal |-> p,
           states |-> HAStates, meta |-> m, overrides |-> o] :
            p \in Principals, m \in TemplateMetas, o \in DeviceOverrides}

\* The HTTP status of the probe's response; 0 when fetchWithTimeout threw
\* (network error or timeout) and there is none.
ProbeStatuses == {0, 200, 401}

\* A probe that reports every host reachable: the behaviour C15
\* distinguishes the probe's verdict from.
probeAlwaysReachable(status) == TRUE

\* A probe that takes only a 2xx response for a sign of life: the behaviour
\* C28 distinguishes line 254 from.
probeNeedsOk(status) == status >= 200 /\ status <= 299

\* probeHaReachability, ha.ts 237-258: res.status > 0, false from the catch.
probeHaReachability(status) == status > 0

NewFetch(mode) ==
    [pc |-> "start", mode |-> mode, baseUrl |-> NullStr, trace |-> <<>>,
     metaOk |-> TRUE, enriched |-> <<>>, result |-> <<>>, error |-> NoError]

InitFetch ==
    /\ StoreInit({NoEntry}, FALSE)
    /\ backend = Null
    /\ resolution = Null
    /\ gateway \in Gateways
    /\ pipeline \in {NewFetch(m) : m \in Modes}
    /\ dispatch = Null
    /\ transport = Null

Fails(message) == pipeline' = [pipeline EXCEPT !.pc = "failed", !.error = message]
Calls(step) == pipeline' = [pipeline EXCEPT !.pc = step, !.trace = Append(@, step)]

\* part_009 127-141: the connection is resolved, the URL of the mode is
\* normalised, and either [] is returned or the probe is issued.
FetchStart(resolved) ==
    /\ pipeline.pc = "start"
    /\ LET baseUrl == normalizeUrl(modeUrl(gateway, pipeline.mode)) IN
       IF ~resolved
       THEN pipeline' = [pipeline EXCEPT !.pc = "failed", !.trace = <<"resolve">>,
                                         !.error = "HA connection not configured"]
       ELSE IF baseUrl = <<>>
       THEN pipeline' = [pipeline EXCEPT !.pc = "done", !.trace = <<"resolve">>,
                                         !.baseUrl = baseUrl, !.result = <<>>]
       ELSE pipeline' = [pipeline EXCEPT !.pc = "probe", !.baseUrl = baseUrl,
                                         !.trace = <<"resolve", "probe">>]
    /\ UNCHANGED <<storeVars, backend, resolution, gateway, clientVars>>

\* part_009 141-152 and ha.ts 151: the probe's answer; unreachable throws
\* the error of the mode, reachable issues GET /api/states.
ProbeReturns(status) ==
    /\ pipeline.pc = "probe"
    /\ IF probeHaReachability(status) THEN Calls("states")
       ELSE Fails(IF pipeline.mode = "home"
                  THEN "Unable to reach Home Assistant on the local network."
                  ELSE "Unable to reach Home Assistant via cloud.")
    /\ UNCHANGED <<storeVars, backend, resolution, gateway, clientVars>>

\* ha.ts 151-168 and part_009 154-162: the state listing's answer; a
\* failure is rethrown, a success issues the template call.
StatesReturn(ok) ==
    /\ pipeline.pc = "states"
    /\ IF ok THEN Calls("template")
       ELSE Fails("Unable to reach Home Assistant: HA API error")
    /\ UNCHANGED <<storeVars, backend, resolution, gateway, clientVars>>

\* ha.ts 165-202 and part_009 165-169: the template call's answer, the
\* enriched devices, and the override query.
TemplateReturns(ok) ==
    /\ pipeline.pc = "template"
    /\ pipeline' = [pipeline EXCEPT
           !.pc = "overrides", !.trace = Append(@, "overrides"), !.metaOk = ok,
           !.enriched = getDevicesWithMetadata(gateway.states,
                                               templateOrEmpty(gateway.meta, ok))]
    /\ UNCHANGED <<storeVars, backend, resolution, gateway, clientVars>>

\* part_009 166-215: the override rows' answer; an error is thrown, rows
\* shape the devices and the tenant filter is applied.
OverridesReturn(ok) ==
    /\ pipeline.pc = "overrides"
    /\ IF ok
       THEN pipeline' = [pipeline EXCEPT
                !.pc = "done",
                !.result = resolveDevices(pipeline.enriched, gateway.overrides,
                                          gateway.principal.role,
                                          gateway.principal.rules)]
       ELSE Fails("override query failed")
    /\ UNCHANGED <<storeVars, backend, resolution, gateway, clientVars>>

NextFetch ==
    \/ \E resolved \in BOOLEAN : FetchStart(resolved)
    \/ \E status \in ProbeStatuses : ProbeReturns(status)
    \/ \E ok \in BOOLEAN : StatesReturn(ok)
    \/ \E ok \in BOOLEAN : TemplateReturns(ok)
    \/ \E ok \in BOOLEAN : OverridesReturn(ok)

SpecFetch == InitFetch /\ [][NextFetch]_vars

\* ---------------------------------- api/dinodia.ts: getUserWithHaConnection

\* HaConnection ids; NoConnection stands for a null haConnectionId / a null
\* HaConnection.
ConnectionIds == {1, 2}
NoConnection == 0

\* The rows a resolution can meet: the calling user's role, explicit
\* connection id and owned connection, the admin row the ADMIN query returns
\* first (if any) with its explicit id and owned connection, and the ids of
\* the HaConnection rows that exist. An owned connection is a row that exists.
Backends ==
    {[role |-> "ADMIN", userConn |-> u, userOwned |-> o, adminExists |-> FALSE,
      adminConn |-> NoConnection, adminOwned |-> NoConnection, connections |-> c] :
        u \in ConnectionIds \cup {NoConnection},
        c \in SUBSET ConnectionIds,
        o \in ConnectionIds \cup {NoConnection}}
    \cup {[role |-> "TENANT", userConn |-> u, userOwned |-> NoConnection,
           adminExists |-> e, adminConn |-> a, adminOwned |-> o, connections |-> c] :
            u \in ConnectionIds \cup {NoConnection},
            e \in BOOLEAN,
            a \in ConnectionIds \cup {NoConnection},
            o \in ConnectionIds \cup {NoConnection},
            c \in SUBSET ConnectionIds}
WellFormed(b) ==
    /\ b.userOwned \in b.connections \cup {NoConnection}
    /\ b.adminOwned \in b.connections \cup {NoConnection}
    /\ ~b.adminExists => b.adminConn = NoConnection /\ b.adminOwned = NoConnection

NewResolution ==
    [pc |-> "user", role |-> "", firstConn |-> NoConnection, userConn |-> NoConnection,
     haConnection |-> NoConnection, adminHaConnectionId |-> NoConnection,
     error |-> NoError,
     round |-> 1, returned |-> NoConnection,
     rows |-> [user |-> NoConnection, admin |-> NoConnection]]

InitResolve ==
    /\ StoreInit({NoEntry}, FALSE)
    /\ gateway = Null
    /\ pipeline = Null
    /\ backend \in {b \in Backends : WellFormed(b)}
    /\ resolution = NewResolution
    /\ dispatch = Null
    /\ transport = Null

\* fetchHaConnectionById, lines 41-45: the row of the id, null without one.
fetchHaConnectionById(b, id) == IF id \in b.connections THEN id ELSE NoConnection

\* line 91: admin?.haConnectionId ?? adminOwned?.id ?? null
adminConnectionId(b) ==
    IF ~b.adminExists THEN NoConnection
    ELSE IF b.adminConn # NoConnection THEN b.adminConn ELSE b.adminOwned

\* A tenant that keeps a connection of its own that resolved: the behaviour
\* C19 distinguishes line 107 from.
keepOwn(own, ha) == IF own # NoConnection THEN own ELSE ha

\* line 107: haConnection = ha, whatever the tenant's own id resolved to.
pinToAdmin(own, ha) == ha

Throws(message) == resolution' = [resolution EXCEPT !.pc = "failed", !.error = message]

\* lines 116-120: the final check and the return.
Return(r) ==
    IF r.haConnection = NoConnection
    THEN [r EXCEPT !.pc = "failed", !.error = "HA connection not configured"]
    ELSE [r EXCEPT !.pc = "done"]

\* lines 70-83: what follows the lookup of the user's own connection.
AfterOwn(r) ==
    IF r.haConnection = NoConnection /\ r.role = "ADMIN" THEN [r EXCEPT !.pc = "owned"]
    ELSE IF r.role = "TENANT" THEN [r EXCEPT !.pc = "admins"]
    ELSE Return(r)

\* lines 62-68: fetchUserWithRelations returned.
UserFetched(found) ==
    /\ resolution.pc = "user"
    /\ IF ~found THEN Throws("User not found")
       ELSE LET r == [resolution EXCEPT !.role = backend.role,
                                        !.firstConn = backend.userConn,
                                        !.userConn = backend.userConn]
            IN resolution' = IF r.userConn # NoConnection
                             THEN [r EXCEPT !.pc = "own"] ELSE AfterOwn(r)
    /\ UNCHANGED <<storeVars, backend, gateway, pipeline, clientVars>>

\* lines 66-72: fetchHaConnectionById(user.haConnectionId) returned.
OwnFetched ==
    /\ resolution.pc = "own"
    /\ resolution' = AfterOwn([resolution EXCEPT
           !.haConnection = fetchHaConnectionById(backend, resolution.userConn)])
    /\ UNCHANGED <<storeVars, backend, gateway, pipeline, clientVars>>

\* lines 70-72, 116-120: fetchHaConnectionOwnedBy(user.id) returned (admin).
OwnedFetched ==
    /\ resolution.pc = "owned"
    /\ resolution' = Return([resolution EXCEPT !.haConnection = backend.userOwned])
    /\ UNCHANGED <<storeVars, backend, gateway, pipeline, clientVars>>

\* lines 109-111: no admin connection id.
NoAdminConnection(r) ==
    IF r.haConnection = NoConnection
    THEN [r EXCEPT !.pc = "failed",
                   !.error = "HA connection not configured for any admin"]
    ELSE Return(r)

\* lines 77-90: the ADMIN query returned.
AdminsQueried(ok) ==
    /\ resolution.pc = "admins"
    /\ IF ~ok THEN Throws("admin query failed")
       ELSE IF backend.adminExists
       THEN resolution' = [resolution EXCEPT !.pc = "adminOwned"]
       ELSE resolution' = NoAdminConnection(resolution)
    /\ UNCHANGED <<storeVars, backend, gateway, pipeline, clientVars>>

\* lines 90-104: fetchHaConnectionOwnedBy(admin.id) returned.
AdminOwnedFetched ==
    /\ resolution.pc = "adminOwned"
    /\ LET id == adminConnectionId(backend)
           r == [resolution EXCEPT !.adminHaConnectionId = id]
       IN resolution' =
            IF id = NoConnection THEN NoAdminConnection(r)
            ELSE IF backend.adminConn = NoConnection
            THEN [r EXCEPT !.pc = "updateAdmin"]
            ELSE [r EXCEPT !.pc = "updateTenant"]
    /\ UNCHANGED <<storeVars, backend, gateway, pipeline, clientVars>>

\* lines 93-98: the update of the admin's row returned.
AdminUpdated ==
    /\ resolution.pc = "updateAdmin"
    /\ backend' = [backend EXCEPT !.adminConn = resolution.adminHaConnectionId]
    /\ resolution' = [resolution EXCEPT !.pc = "updateTenant"]
    /\ UNCHANGED <<storeVars, gateway, pipeline, clientVars>>

\* lines 100-104: the update of the tenant's row returned.
TenantUpdated ==
    /\ resolution.pc = "updateTenant"
    /\ backend' = [backend EXCEPT !.userConn = resolution.adminHaConnectionId]
    /\ resolution' = [resolution EXCEPT !.pc = "ha"]
    /\ UNCHANGED <<storeVars, gateway, pipeline, clientVars>>

\* lines 105-108: fetchHaConnectionById(adminHaConnectionId) returned.
HaFetched ==
    /\ resolution.pc = "ha"
    /\ LET ha == fetchHaConnectionById(backend, resolution.adminHaConnectionId) IN
       IF ha = NoConnection THEN Throws("HA connection not found")
       ELSE resolution' = [resolution EXCEPT
                !.pc = "refetch",
                !.haConnection = pinToAdmin(resolution.haConnection, ha)]
    /\ UNCHANGED <<storeVars, backend, gateway, pipeline, clientVars>>

\* lines 108, 116-120: the second fetchUserWithRelations returned.
UserRefetched ==
    /\ resolution.pc = "refetch"
    /\ resolution' = Return([resolution EXCEPT !.userConn = backend.userConn])
    /\ UNCHANGED <<storeVars, backend, gateway, pipeline, clientVars>>

NextResolve ==
    \/ \E found \in BOOLEAN : UserFetched(found)
    \/ OwnFetched
    \/ OwnedFetched
    \/ \E ok \in BOOLEAN : AdminsQueried(ok)
    \/ AdminOwnedFetched
    \/ AdminUpdated
    \/ TenantUpdated
    \/ HaFetched
    \/ UserRefetched

SpecResolve == InitResolve /\ [][NextResolve]_vars

\* A caller resolves the same user again after a resolution returned
\* (every fetchDevicesForUser starts with one, line 127); the record keeps
\* what the first one returned and the explicit ids it left in the rows.
MaxResolutions == 2
ResolveAgain ==
    /\ resolution.pc = "done"
    /\ resolution.round < MaxResolutions
    /\ resolution' = [NewResolution EXCEPT
           !.round = resolution.round + 1,
           !.returned = resolution.haConnection,
           !.rows = [user |-> backend.userConn, admin |-> backend.adminConn]]
    /\ UNCHANGED <<storeVars, backend, gateway, pipeline, clientVars>>

NextResolveTwice == NextResolve \/ ResolveAgain
SpecResolveTwice == InitResolve /\ [][NextResolveTwice]_vars

\* ------------------------------- utils/haCommands.ts: handleDeviceCommand

\* Numbers that need not be whole (value / 100) are fractions num / den
\* with a positive den.
Ratio(n, d) == [num |-> n, den |-> d]
Less(a, b) == a.num * b.den < b.num * a.den
Same(a, b) == a.num * b.den = b.num * a.den
MathMax(a, b) == IF Less(a, b) THEN b ELSE a
MathMin(a, b) == IF Less(b, a) THEN b ELSE a

\* A clamp that lets every value through: the behaviour C24 distinguishes
\* clamp from.
noClamp(value, min, max) == value

\* clamp, demoData.ts 216-218: Math.min(max, Math.max(min, value)).
clamp(value, min, max) == MathMin(max, MathMax(min, value))

\* The `value` argument: undefined, a number, or (from an untyped caller)
\* something that is not a number.
Undefined == [type |-> "undefined", n |-> 0]
NotANumber == [type |-> "string", n |-> 0]
Number(n) == [type |-> "number", n |-> n]
Values == {Undefined, NotANumber} \cup {Number(n) : n \in {-50, 0, 37, 100, 150}}
\* value ?? 0
valueOrZero(value) == IF value.type = "undefined" THEN 0 ELSE value.n

\* A dispatcher that validates no command: the behaviour C22 distinguishes
\* the check of line 126 from.
NUMERIC_NONE == {}

\* NUMERIC_COMMANDS, demoData.ts 113-116.
NUMERIC_COMMANDS == {"light/set_brightness", "media/volume_set"}

Commands ==
    {"light/toggle", "light/set_brightness", "blind/open", "blind/close",
     "media/play_pause", "media/next", "media/previous", "media/volume_up",
     "media/volume_down", "media/volume_set", "boiler/temp_up",
     "boiler/temp_down", "tv/toggle_power", "speaker/toggle_power",
     "vacuum/start"}
CommandEntities == {LightA, <<"media_player", ".", "tv">>, <<"switch", ".", "s">>}
\* state.state of GET /api/states/<id>; "" is what String(state.state ?? '')
\* makes of a missing one.
RemoteStates == {"on", "off", "playing", "paused", "standby", "unavailable", ""}
\* state.attributes: each number present (a list of one) or absent.
Attributes ==
    {[temperature |-> t, current_temperature |-> c] :
        t \in {<<>>, <<21>>}, c \in {<<>>, <<18>>}}
\* HTTP statuses of a response; 0 when fetchWithTimeout threw instead.
HttpStatuses == {0, 200, 404, 500}
\* res.ok
ok(status) == status >= 200 /\ status <= 299

NoFailure == [message |-> NoError, status |-> 0]
Failure(message, status) == [message |-> message, status |-> status]

\* One callHaService(ha, domain, service, data) of the dispatcher; data is
\* entity_id and at most one more key with a number.
ServiceCall(domain, service, entityId, key, n) ==
    [kind |-> "service", domain |-> domain, service |-> service,
     entity_id |-> entityId, key |-> key, n |-> n]
StateRead(entityId) ==
    [kind |-> "state", domain |-> "", service |-> "", entity_id |-> entityId,
     key |-> "", n |-> Ratio(0, 1)]
Plain(domain, service, entityId) ==
    ServiceCall(domain, service, entityId, "", Ratio(0, 1))

\* A toggle that acts the wrong way round: the behaviour C23 distinguishes
\* line 138 from.
lightServiceInverted(currentState) == IF currentState = "on" THEN "turn_on" ELSE "turn_off"

\* line 138: currentState === 'on' ? 'turn_off' : 'turn_on'
lightService(currentState) == IF currentState = "on" THEN "turn_off" ELSE "turn_on"

\* line 161: currentState === 'playing' ? 'media_pause' : 'media_play'
playPauseService(currentState) ==
    IF currentState = "playing" THEN "media_pause" ELSE "media_play"

\* A power toggle that takes only "off" for off: the behaviour C25
\* distinguishes line 207 from.
powerServiceOffOnly(currentState) == IF currentState = "off" THEN "turn_on" ELSE "turn_off"

\* line 207: off or standby ? 'turn_on' : 'turn_off'
powerService(currentState) ==
    IF currentState = "off" \/ currentState = "standby" THEN "turn_on" ELSE "turn_off"

\* A dispatcher that ignores the attributes and always starts from 20: the
\* behaviour C39 distinguishes lines 189-194 from.
alwaysTwenty(attrs) == 20

\* lines 189-194: the temperature of the attributes, 20 without one.
currentTemp(attrs) ==
    IF attrs.temperature # <<>> THEN attrs.temperature[1]
    ELSE IF attrs.current_temperature # <<>> THEN attrs.current_temperature[1]
    ELSE 20

\* The switch of lines 135-213: the service call of a command, or the error
\* it throws instead.
Throw(message) == [error |-> Failure(message, 0), call |-> StateRead(<<>>)]
Call(c) == [error |-> NoFailure, call |-> c]
switch(command, entityId, currentState, attrs, value) ==
    LET domain == beforeDot(entityId) IN
    CASE command = "light/toggle" ->
           IF domain = <<"light">>
           THEN Call(Plain("light", lightService(currentState), entityId))
           ELSE Call(Plain("homeassistant", "toggle", entityId))
      [] command = "light/set_brightness" ->
           IF domain # <<"light">> THEN Throw("Brightness supported only for lights")
           ELSE Call(ServiceCall("light", "turn_on", entityId, "brightness_pct",
                        clamp(Ratio(valueOrZero(value), 1), Ratio(0, 1), Ratio(100, 1))))
      [] command = "blind/open" -> Call(Plain("cover", "open_cover", entityId))
      [] command = "blind/close" -> Call(Plain("cover", "close_cover", entityId))
      [] command = "media/play_pause" ->
           Call(Plain("media_player", playPauseService(currentState), entityId))
      [] command = "media/next" -> Call(Plain("media_player", "media_next_track", entityId))
      [] command = "media/previous" ->
           Call(Plain("media_player", "media_previous_track", entityId))
      [] command = "media/volume_up" -> Call(Plain("media_player", "volume_up", entityId))
      [] command = "media/volume_down" -> Call(Plain("media_player", "volume_down", entityId))
      [] command = "media/volume_set" ->
           Call(ServiceCall("media_player", "volume_set", entityId, "volume_level",
                    clamp(Ratio(valueOrZero(value), 100), Ratio(0, 1), Ratio(1, 1))))
      [] command \in {"boiler/temp_up", "boiler/temp_down"} ->
           Call(ServiceCall("climate", "set_temperature", entityId, "temperature",
                    Ratio(currentTemp(attrs) + (IF command = "boiler/temp_up" THEN 1 ELSE -1), 1)))
      [] command \in {"tv/toggle_power", "speaker/toggle_power"} ->
           Call(Plain("media_player", powerService(currentState), entityId))
      [] OTHER -> Throw("Unsupported command")

\* A card that refreshes after every command, failed or not: the behaviour
\* C26 distinguishes line 86 from.
afterEveryCommand(refreshes, succeeded) == refreshes + 1

\* DeviceCard.tsx 79-86: onAfterCommand runs after handleDeviceCommand
\* resolved, and not when it threw.
afterCommand(refreshes, succeeded) == IF succeeded THEN refreshes + 1 ELSE refreshes

\* DeviceCard.tsx 87-98: catch (Alert 'Action failed') and finally.
Caught(d, failure) ==
    [d EXCEPT !.pc = "done", !.error = failure, !.alert = "Action failed",
              !.pending = FALSE, !.refreshes = afterCommand(@, FALSE)]

NewDispatch(ha, entityId, command, value, cached) ==
    [pc |-> "idle", ha |-> ha, pending |-> FALSE, entityId |-> entityId,
     command |-> command, value |-> value, cached |-> cached,
     currentState |-> "", trace |-> <<>>, error |-> NoFailure, alert |-> NoError,
     refreshes |-> 0]

InitCommand ==
    /\ StoreInit({NoEntry}, FALSE)
    /\ backend = Null
    /\ resolution = Null
    /\ gateway = Null
    /\ pipeline = Null
    /\ transport = Null
    /\ dispatch \in
         {NewDispatch(TRUE, e, c, v, s) :
             e \in CommandEntities, c \in Commands, v \in Values, s \in {"on", "off"}}
         \cup {NewDispatch(FALSE, LightA, "light/toggle", Undefined, "on")}

\* DeviceCard.tsx 66-85 and demoData.ts 118-130: the press, the guards, the
\* validation, and the state read.
Press ==
    /\ dispatch.pc = "idle"
    /\ dispatch' =
         IF ~dispatch.ha
         THEN [dispatch EXCEPT !.pc = "done", !.alert = "Unavailable"]
         ELSE IF dispatch.command \in NUMERIC_COMMANDS /\ dispatch.value.type # "number"
         THEN Caught(dispatch, Failure("Command requires numeric value", 0))
         ELSE [dispatch EXCEPT !.pc = "state", !.pending = TRUE,
                               !.trace = <<StateRead(dispatch.entityId)>>]
    /\ UNCHANGED <<storeVars, backend, resolution, gateway, pipeline, transport>>

\* demoData.ts 130-214: fetchHaState returned the state; the switch throws
\* or issues its service call.
StateReturns(state, attrs) ==
    /\ dispatch.pc = "state"
    /\ LET s == switch(dispatch.command, dispatch.entityId, state, attrs, dispatch.value)
           d == [dispatch EXCEPT !.currentState = state]
       IN dispatch' =
            IF s.error # NoFailure THEN Caught(d, s.error)
            ELSE [d EXCEPT !.pc = "service", !.trace = Append(@, s.call)]
    /\ UNCHANGED <<storeVars, backend, resolution, gateway, pipeline, transport>>

\* ha.ts 96-120: fetchHaState threw (no response, or a non-2xx one).
StateFails(status) ==
    /\ dispatch.pc = "state"
    /\ ~ok(status)
    /\ dispatch' = Caught(dispatch,
                          IF status = 0 THEN Failure("HA network error", 0)
                          ELSE Failure("HA API error", status))
    /\ UNCHANGED <<storeVars, backend, resolution, gateway, pipeline, transport>>

\* ha.ts 205-235 and DeviceCard.tsx 86-98: callHaService returned or threw.
ServiceReturns(status) ==
    /\ dispatch.pc = "service"
    /\ dispatch' =
         IF ok(status)
         THEN [dispatch EXCEPT !.pc = "done", !.pending = FALSE,
                               !.refreshes = afterCommand(@, TRUE)]
         ELSE Caught(dispatch,
                     IF status = 0 THEN Failure("HA network error", 0)
                     ELSE Failure("HA service error", status))
    /\ UNCHANGED <<storeVars, backend, resolution, gateway, pipeline, transport>>

NextCommand ==
    \/ Press
    \/ \E state \in RemoteStates, attrs \in Attributes : StateReturns(state, attrs)
    \/ \E status \in HttpStatuses : StateFails(status)
    \/ \E status \in HttpStatuses : ServiceReturns(status)

SpecCommand == InitCommand /\ [][NextCommand]_vars

\* --------------------------------- api/ha.ts: fetchWithTimeout and the probe

\* Who calls fetchWithTimeout and with which timeoutMs: the probe (2000 for
\* home, 4000 for cloud, part_009 142), callHaApi, the template call and
\* callHaService (default 5000), and a caller that passes 0 for "no timeout".
Callers ==
    {[name |-> "probe", timeoutMs |-> 2000], [name |-> "probe", timeoutMs |-> 4000],
     [name |-> "callHaApi", timeoutMs |-> 5000], [name |-> "callHaApi", timeoutMs |-> 0],
     [name |-> "callHaTemplate", timeoutMs |-> 5000],
     [name |-> "callHaService", timeoutMs |-> 5000]}
ResponseStatuses == {200, 401, 404, 500}

NewTransport(abortable, caller) ==
    [pc |-> "idle", abortable |-> abortable, caller |-> caller.name,
     timeoutMs |-> caller.timeoutMs, request |-> "none", timer |-> "none",
     result |-> "pending", status |-> 0, reason |-> "", probe |-> "pending"]

InitTransport ==
    /\ StoreInit({NoEntry}, FALSE)
    /\ backend = Null
    /\ resolution = Null
    /\ gateway = Null
    /\ pipeline = Null
    /\ dispatch = Null
    /\ transport \in {NewTransport(a, c) : a \in BOOLEAN, c \in Callers}

\* ha.ts 77: typeof AbortController !== 'undefined' decides whether the
\* timeout aborts the request.
abortsRequest(abortable) == abortable

\* fetchWithTimeout settles; a probe then returns res.status > 0, or false
\* from its catch (ha.ts 242-257), for which the status is 0.
SettleWith(t, result, status, reason) ==
    [t EXCEPT !.pc = "settled", !.result = result, !.status = status,
              !.reason = reason,
              !.timer = IF t.abortable /\ t.timer = "armed" THEN "cleared" ELSE @,
              !.probe = IF t.caller # "probe" THEN "none"
                        ELSE IF probeHaReachability(status) THEN "reachable"
                        ELSE "unreachable"]

\* ha.ts 73-93: the request is sent, with the timer armed unless
\* timeoutMs <= 0.
Send ==
    /\ transport.pc = "idle"
    /\ transport' = [transport EXCEPT
           !.pc = "waiting", !.request = "open",
           !.timer = IF transport.timeoutMs <= 0 THEN "none" ELSE "armed"]
    /\ UNCHANGED <<storeVars, backend, resolution, gateway, pipeline, dispatch>>

\* The gateway answers with an HTTP status. A caller still waiting gets the
\* response (and the finally of line 83 clears the timer); after a lost race
\* the response is dropped.
Responds(status) ==
    /\ transport.request = "open"
    /\ transport' =
         IF transport.pc = "waiting"
         THEN [SettleWith(transport, "response", status, "") EXCEPT !.request = "responded"]
         ELSE [transport EXCEPT !.request = "responded"]
    /\ UNCHANGED <<storeVars, backend, resolution, gateway, pipeline, dispatch>>

\* The request fails at the network level (DNS, connection refused).
NetworkFails ==
    /\ transport.request = "open"
    /\ transport' =
         IF transport.pc = "waiting"
         THEN [SettleWith(transport, "error", 0, "network") EXCEPT !.request = "failed"]
         ELSE [transport EXCEPT !.request = "failed"]
    /\ UNCHANGED <<storeVars, backend, resolution, gateway, pipeline, dispatch>>

\* The timer fires. Line 79: controller.abort() aborts the request, whose
\* promise rejects. Lines 88-93: the race rejects with 'Network timeout' and
\* the request is left running; a timer left armed after the race was won
\* fires without effect.
TimerFires ==
    /\ transport.timer = "armed"
    /\ transport' =
         IF abortsRequest(transport.abortable)
         THEN [SettleWith(transport, "error", 0, "abort") EXCEPT
                  !.request = "aborted", !.timer = "fired"]
         ELSE IF transport.pc = "waiting"
         THEN [SettleWith(transport, "error", 0, "timeout") EXCEPT !.timer = "fired"]
         ELSE [transport EXCEPT !.timer = "fired"]
    /\ UNCHANGED <<storeVars, backend, resolution, gateway, pipeline, dispatch>>

NextTransport ==
    \/ Send
    \/ \E status \in ResponseStatuses : Responds(status)
    \/ NetworkFails
    \/ TimerFires

SpecTransport == InitTransport /\ [][NextTransport]_vars

\* -------------------------------------------------------- specifications

\* The turns every specification has: the network and storage calls of the
\* store returning.
Settle ==
    \/ \E r \in 1..MaxRequests : FetchSucceeds(r)
    \/ \E r \in 1..MaxRequests : PersistDone(r)
    \/ \E r \in 1..MaxRequests : FetchFails(r)
    \/ \E i \in 1..MaxCalls : CatchPersistDone(i)
    \/ \E l \in loads : LoadDone(l)

\* The dashboard of a logged-in user: pull to refresh and mode toggles.
Next ==
    \/ Settle
    \/ TimePasses
    \/ HandleRefresh
    \/ ToggleMode
    \/ \E t \in toggles : ToggleClearDone(t)

Spec == Init /\ [][Next]_vars

\* The dashboard left alone: the polling interval and the host's app state.
NextPoll ==
    \/ Settle
    \/ TimePasses
    \/ AppStateChange
    \/ PollTick

SpecPoll == Init /\ [][NextPoll]_vars

\* Logout, login and user switch around the dashboard.
NextSession ==
    \/ Settle
    \/ ClearSession
    \/ ClearSessionRemoved
    \/ ClearAllNext
    \/ ClearAllDone
    \/ \E u \in Users : HandleLogin(u)
    \/ LoginConnection
    \/ \E u \in Users : SetSession(u)

SpecSession == Init /\ [][NextSession]_vars

\* The polling interval across mode toggles and a logout.
NextInterval ==
    \/ Settle
    \/ PollTick
    \/ ToggleMode
    \/ \E t \in toggles : ToggleClearDone(t)
    \/ ClearSession
    \/ ClearSessionRemoved
    \/ ClearAllNext
    \/ ClearAllDone
\* The dashboard's refreshes and mode toggles when every network and
\* storage call returns: a pending call's continuation is eventually run.
NextRetry ==
    \/ Settle
    \/ HandleRefresh
    \/ ToggleMode
    \/ \E t \in toggles : ToggleClearDone(t)
CallsReturn ==
    /\ \A r \in 1..MaxRequests :
          /\ WF_vars(FetchSucceeds(r) \/ FetchFails(r))
          /\ WF_vars(PersistDone(r))
    /\ WF_vars(\E i \in 1..MaxCalls : CatchPersistDone(i))
    /\ WF_vars(\E l \in loads : LoadDone(l))
    /\ WF_vars(\E t \in toggles : ToggleClearDone(t))
SpecRetry == Init /\ [][NextRetry]_vars /\ CallsReturn

SpecInterval == Init /\ [][NextInterval]_vars

\* Mode toggles around logout, login and user switch, over a gateway that
\* answers every fetch and a storage that starts empty.
InitMode == InitFrom({NoEntry}, FALSE)
NextMode ==
    \/ \E r \in 1..MaxRequests : FetchSucceeds(r)
    \/ \E r \in 1..MaxRequests : PersistDone(r)
    \/ \E l \in loads : LoadDone(l)
    \/ ToggleMode
    \/ \E t \in toggles : ToggleClearDone(t)
    \/ ClearSession
    \/ ClearSessionRemoved
    \/ ClearAllNext
    \/ ClearAllDone
    \/ \E u \in Users : HandleLogin(u)
    \/ LoginConnection
    \/ \E u \in Users : SetSession(u)
SpecMode == InitMode /\ [][NextMode]_vars

\* Pull to refresh and the polling interval when every network and storage
\* call returns.
NextRefreshing ==
    \/ Settle
    \/ HandleRefresh
    \/ AppStateChange
    \/ PollTick
RefreshesReturn ==
    /\ \A r \in 1..MaxRequests :
          /\ WF_vars(FetchSucceeds(r) \/ FetchFails(r))
          /\ WF_vars(PersistDone(r))
    /\ \A i \in 1..MaxCalls : WF_vars(CatchPersistDone(i))
    /\ WF_vars(\E l \in loads : LoadDone(l))
SpecRefreshing == Init /\ [][NextRefreshing]_vars /\ RefreshesReturn

\* The session operations over an AsyncStorage whose calls may reject.
SpecFaulty == InitFaulty /\ [][NextSession]_vars

\* The dashboard over a storage that may hold a malformed value.
SpecMount == InitMount /\ [][Next]_vars

\* ------------------------------------------------------------------ claims

Outstanding(k) ==
    {r \in 1..MaxRequests : requests[r].st = "net" /\ requests[r].key = k}
Unsettled(k) ==
    {r \in 1..MaxRequests : requests[r].st # "free" /\ requests[r].key = k}

\* The refreshDevices calls a step starts: the calls it appends.
Started ==
    IF Len(calls') > Len(calls) /\ SubSeq(calls', 1, Len(calls)) = calls
    THEN {calls'[i] : i \in (Len(calls) + 1)..Len(calls')}
    ELSE {}

\* The calls a step continues: those that return or move on in it.
Range(f) == {f[i] : i \in DOMAIN f}
Continued == {c \in Range(calls) : c \notin Range(calls')}

\* A request whose fetchDevicesForUser resolves / rejects in this step.
Resolves(r) == requests[r].st = "net" /\ requests'[r].st = "save"
Rejects(r) == requests[r].st = "net" /\ requests'[r].st = "free"

\* C1: for every key at most one fetchDevicesForUser started by
\* fetchAndCacheDevices is outstanding, in every reachable state.
C1_SingleFetchPerKey == \A k \in Keys : Cardinality(Outstanding(k)) <= 1

\* C2: a refresh call that arrives for key k while an earlier request for k has
\* not settled starts no new fetch: it awaits that same request, and so
\* resolves or fails with that request's entry or error.
C2_ConcurrentRefreshJoins ==
    [][\A c \in Started :
          Unsettled(c.key) # {} =>
              /\ c.req \in Unsettled(c.key)
              /\ requests'[c.req].st = requests[c.req].st]_vars

\* C3: while the request of a fetch has not settled, the in-flight map holds
\* the entry of that very request for its key.
C3_InFlightUntilSettled ==
    \A r \in 1..MaxRequests :
        requests[r].st # "free" => inFlight[requests[r].key] = r

\* C4: when the fetch awaited by refresh calls for key k fails, the cache
\* entry of k is afterwards an empty one, never a snapshot with devices that
\* was cached before, whichever calls awaited it.
C4_FailureInvalidates ==
    [][\A r \in 1..MaxRequests :
          Rejects(r) /\ Awaiting(r) # {} =>
              memoryCache'[requests[r].key].devices = <<>>]_vars

\* C5: a step in which only foreground calls that a newer foreground call has
\* superseded return leaves devices, lastUpdated and error as they were.
SupersededCall(c) == c.live /\ ~c.silent /\ c.reqId < requestIdRef
C5_SupersededChangesNothing ==
    [][(/\ Continued # {}
        /\ \A c \in Continued : SupersededCall(c) /\ c \notin Range(calls')
        /\ Len(calls') < Len(calls)
        /\ sessionUser' = sessionUser /\ haMode' = haMode)
       => UNCHANGED <<devices, lastUpdated, error>>]_vars

\* C6: while the hook is mounted, an error is never shown together with a
\* non-empty device list.
C6_NoDevicesWithError == mounted /\ error # NoError => devices = <<>>

\* C7: when a fetch resolves, the in-memory entry of its key becomes exactly
\* the list it resolved, stamped with the time of completion, whatever the
\* entry was before and whichever other fetches of the key are unsettled or
\* were started later; and the request settling afterwards, once its save
\* returned, writes nothing more to the in-memory cache.
Settles(r) == requests[r].st = "save" /\ requests'[r].st = "free"
OtherKeysKept(k) ==
    \A k2 \in Keys \ {k} :
        /\ memoryCache'[k2] = memoryCache[k2]
        /\ storage'[k2] = storage[k2]
        /\ inFlight'[k2] = inFlight[k2]
C8_ClearDropsOneKey ==
    [][/\ \A t \in toggles' \ toggles : OtherKeysKept(cacheKey(t.user, t.mode))
       /\ \A t \in toggles \ toggles' :
            LET k == cacheKey(t.user, t.mode) IN
            /\ memoryCache'[k] = NoEntry
            /\ storage'[k] = NoEntry
            /\ OtherKeysKept(k)]_vars

\* C9: when clearSession of user u, or setSession from u to another user, has
\* completed, neither (u, home) nor (u, cloud) has an in-memory or a
\* persisted entry.
C9_SessionEndClearsUser ==
    [][(sessOp.kind \in {"logout", "switch"} /\ sessOp.pc = "cloud"
        /\ sessOp' = NoOp)
       => \A m \in Modes :
            /\ memoryCache'[cacheKey(sessOp.user, m)] = NoEntry
            /\ storage'[cacheKey(sessOp.user, m)] = NoEntry]_vars

\* C10: a firing of the polling interval while the app state is not 'active'
\* starts no refresh and changes neither cache nor visible state; a firing
\* while 'active' starts exactly one refresh, a background one of the observed
\* key, and at most one fetch.
C10_PollingOnlyWhenActive ==
    [][PollTick =>
          IF appState # "active"
          THEN UNCHANGED <<calls, requests, inFlight, memoryCache, storage, loads, intervals,
                           hookVars>>
          ELSE /\ Cardinality(Started) = 1
               /\ Len(calls') = Len(calls) + 1
               /\ \A c \in Started :
                    c.silent /\ c.key = cacheKey(sessionUser, haMode)
               /\ Cardinality({r \in 1..MaxRequests :
                                  requests'[r] # requests[r]}) <= 1
               /\ UNCHANGED <<memoryCache, storage, devices, lastUpdated, error,
                              refreshing>>]_vars

\* C10 witness: the interval has fired while the app was in the background.
C10_Witness == mounted /\ appState = "background" /\ lastTick = "skipped"

\* C11: the live intervals are exactly the one of the key the mounted hook
\* observes, and none when it is unmounted; so a firing of the interval
\* starts a refresh of the observed key only, never of a key the hook has
\* stopped observing.
C11_OneIntervalOfObservedKey ==
    [][/\ intervals' = IF mounted' THEN {cacheKey(sessionUser', haMode')} ELSE {}
       /\ PollTick => /\ mounted
                      /\ \A c \in Started :
                           c.silent /\ c.key = cacheKey(sessionUser, haMode)]_vars

\* C11 witness: after a toggle to cloud the interval has fired for the new key
\* (the mount effect's own background refresh is still behind its storage
\* load), and a refresh of the key observed before is still unfinished.
C11_Witness ==
    /\ mounted /\ haMode = "cloud"
    /\ [key |-> cacheKey(sessionUser, "cloud"), cancelled |-> FALSE] \in loads
    /\ \E i \in 1..Len(calls) :
         calls[i].silent /\ calls[i].key = cacheKey(sessionUser, "cloud")
    /\ \E i \in 1..Len(calls) : calls[i].key = cacheKey(sessionUser, "home")

\* C12: when the storage load of the mount effect returns and the effect was
\* not cancelled (no unmount, no key change since), a well-formed persisted
\* snapshot becomes the visible devices / lastUpdated, anything else leaves
\* them alone, and exactly one background refresh of the key is started in
\* that same turn; a cancelled effect applies nothing and starts nothing.
C12_SnapshotThenOneBackgroundRefresh ==
    [][\A l \in loads :
          LoadDone(l) =>
              LET stored == storage[l.key] IN
              IF l.cancelled
              THEN Started = {} /\ UNCHANGED <<calls, devices, lastUpdated>>
              ELSE /\ IF stored.updatedAt # NullTime
                      THEN /\ devices' = stored.devices
                           /\ lastUpdated' = stored.updatedAt
                      ELSE UNCHANGED <<devices, lastUpdated>>
                   /\ Cardinality(Started) = 1
                   /\ Len(calls') = Len(calls) + 1
                   /\ \A c \in Started : c.silent /\ c.key = l.key]_vars

\* C12 witness: the persisted snapshot is on screen and the background refresh
\* that followed it is waiting for its fetch.
C12_Witness ==
    LET k == cacheKey(sessionUser, haMode) IN
    /\ mounted /\ loads = {}
    /\ storage[k].updatedAt # NullTime
    /\ devices = storage[k].devices /\ devices # <<>>
    /\ lastUpdated = storage[k].updatedAt
    /\ \E i \in 1..Len(calls) :
         calls[i].silent /\ calls[i].key = k /\ calls[i].pc = "await"

\* C13: a rejected AsyncStorage call makes no operation skip its remaining
\* steps. (a) A request whose saveJson returns, resolved or rejected, still
\* hands its entry to the calls awaiting it, the entry having been put in
\* memoryCache when the fetch resolved. (b) A mount effect whose loadJson
\* returns, resolved or rejected, still starts its background refresh.
\* (c) A logout ends only after clearAllDeviceCacheForUser has deleted the
\* in-memory entry of both of the user's keys.
C13_SaveFailureKeepsRefresh ==
    \A r \in 1..MaxRequests :
        /\ Resolves(r) => memoryCache'[requests[r].key] = requests'[r].entry
        /\ Settles(r) =>
              /\ Len(calls') = Len(calls) - Cardinality(Awaiting(r))
              /\ (\E i \in Awaiting(r) : Acts(calls[i])) =>
                    /\ devices' = requests[r].entry.devices
                    /\ lastUpdated' = requests[r].entry.updatedAt
                    /\ error' = NoError
C13_LoadFailureKeepsRefresh ==
    \A l \in loads :
        LoadDone(l) /\ ~l.cancelled =>
            /\ Cardinality(Started) = 1
            /\ \A c \in Started : c.silent /\ c.key = l.key
C13_RemoveFailureKeepsClear ==
    sessOp.kind = "logout" =>
        /\ sessOp' = NoOp => sessOp.pc = "cloud"
        /\ \A m \in Modes :
             sessOp'.pc = m /\ sessOp.pc # m =>
                 memoryCache'[cacheKey(sessOp.user, m)] = NoEntry
C13_StorageFailuresSwallowed ==
    [][/\ C13_SaveFailureKeepsRefresh
       /\ C13_LoadFailureKeepsRefresh
       /\ C13_RemoveFailureKeepsClear]_vars

\* The connection was resolved and the fetch went past its URL check.
PastUrlCheck ==
    pipeline.pc # "start" /\ pipeline.error # "HA connection not configured"
\* null, empty or whitespace.
Blank(u) == u = NullStr \/ \A i \in 1..Len(u) : u[i] = " "
SelectedUrl == IF pipeline.mode = "cloud" THEN gateway.cloudUrl ELSE gateway.baseUrl

\* C14: when the URL the mode selects (cloudUrl for 'cloud', baseUrl for
\* 'home') is null, empty or whitespace, fetchDevicesForUser returns the empty
\* list as a success and has made no reachability probe, no state or
\* metadata fetch and no override lookup.
C14_BlankUrlReturnsEmpty ==
    PastUrlCheck /\ Blank(SelectedUrl) =>
        /\ pipeline.pc = "done"
        /\ pipeline.result = <<>>
        /\ pipeline.error = NoError
        /\ pipeline.trace = <<"resolve">>

\* A cloud fetch of a connection that has a home URL and no cloud URL
\* returned [].
C14_Witness ==
    /\ pipeline.pc = "done"
    /\ pipeline.mode = "cloud"
    /\ gateway.cloudUrl = NullStr
    /\ gateway.baseUrl = <<"h">>
    /\ pipeline.result = <<>>

CallOrder == <<"resolve", "probe", "states", "template", "overrides">>
ModeError ==
    IF pipeline.mode = "home"
    THEN "Unable to reach Home Assistant on the local network."
    ELSE "Unable to reach Home Assistant via cloud."

\* C15: within one device fetch the calls are made in the order connection
\* resolution, probe, state listing, template, override lookup; the state
\* listing is requested only in the turn where the probe returned with an
\* HTTP response, and a probe without a response fails the fetch with the
\* error of the mode, after which no state, template or override call is made.
C15_ProbeBeforeStates ==
    [][/\ pipeline'.trace = SubSeq(CallOrder, 1, Len(pipeline'.trace))
       /\ Len(pipeline'.trace) >= 3 /\ Len(pipeline.trace) < 3 =>
              \E status \in ProbeStatuses \ {0} : ProbeReturns(status)
       /\ ProbeReturns(0) =>
              /\ pipeline'.pc = "failed"
              /\ pipeline'.error = ModeError
              /\ pipeline'.trace = <<"resolve", "probe">>
       /\ pipeline.pc = "failed" => pipeline' = pipeline]_vars

\* A cloud fetch failed at the probe, having made no later call.
C15_Witness ==
    /\ pipeline.pc = "failed"
    /\ pipeline.mode = "cloud"
    /\ pipeline.error = "Unable to reach Home Assistant via cloud."
    /\ pipeline.trace = <<"resolve", "probe">>

\* The fetch returned a list built from the gateway's answers.
Resolved == pipeline.pc = "done" /\ pipeline.trace = CallOrder
StateIds == [i \in 1..Len(gateway.states) |-> gateway.states[i].entity_id]
ResultIds == [i \in 1..Len(pipeline.result) |-> pipeline.result[i].entityId]
OverrideOf(id) == {gateway.overrides[i] : i \in {j \in 1..Len(gateway.overrides) :
                                                  gateway.overrides[j].entityId = id}}
MetaOf(id) == IF pipeline.metaOk
              THEN {gateway.meta[i] : i \in {j \in 1..Len(gateway.meta) :
                                                gateway.meta[j].entity_id = id}}
              ELSE {}
\* The areas the gateway and the override give an entity, the override's first.
GatewayArea(id) == {m.area_name : m \in MetaOf(id)} \ {NullStr}
OverrideArea(id) == {o.area : o \in OverrideOf(id)} \ {NullStr}
EffectiveArea(id) == IF OverrideArea(id) # {} THEN OverrideArea(id) ELSE GatewayArea(id)
InRules(id) == EffectiveArea(id) \cap gateway.principal.rules # {}

\* C16: a tenant's resolved list is, in gateway order, exactly the devices
\* whose effective areaName is non-null and is the area of one of the
\* tenant's rules (so none at all for a tenant without rules); an admin's
\* list has exactly one device per gateway state, unfiltered.
C16_TenantSeesOnlyRuleAreas ==
    Resolved =>
        IF gateway.principal.role = "TENANT"
        THEN /\ ResultIds = SelectSeq(StateIds, InRules)
             /\ \A i \in 1..Len(pipeline.result) :
                    /\ pipeline.result[i].areaName # NullStr
                    /\ pipeline.result[i].areaName \in gateway.principal.rules
             /\ gateway.principal.rules = {} => pipeline.result = <<>>
        ELSE ResultIds = StateIds

\* A tenant with a rule for the kitchen got the kitchen light and not the
\* cover, which has no area.
C16_Witness ==
    /\ Resolved
    /\ gateway.principal = [role |-> "TENANT", rules |-> {Kitchen}]
    /\ ResultIds = <<LightA>>
    /\ EffectiveArea(CoverB) = {}

\* What the gateway alone gives an entity: its friendly name, else its id;
\* its area; its first non-blank label, else the category of its labels or
\* of its domain.
StateOf(id) == CHOOSE st \in Range(gateway.states) : st.entity_id = id
GatewayName(id) ==
    IF StateOf(id).friendly_name # NullStr THEN StateOf(id).friendly_name ELSE id
GatewayLabels(id) ==
    LET NotBlank(l) == ~Blank(l)
        rows == MetaOf(id)
    IN IF rows = {} THEN <<>> ELSE SelectSeq((CHOOSE m \in rows : TRUE).labels, NotBlank)
GatewayLabel(id) ==
    IF GatewayLabels(id) # <<>> THEN GatewayLabels(id)[1]
    ELSE classifyDeviceByLabel(<<beforeDot(id)>>)
\* The device's field is the override's when the override has it, and the
\* gateway's otherwise.
Prefers(value, field, id, fromGateway) ==
    LET given == {o[field] : o \in OverrideOf(id)} \ {NullStr} IN
    IF given # {} THEN value \in given ELSE value = fromGateway

\* C17: in a resolved list each device's name, area and label is the value
\* of its override record where the record has that field, whatever the
\* gateway reported, and the gateway-derived value where the record lacks
\* the field or the entity has no override record.
C17_OverridePrecedence ==
    Resolved =>
        \A i \in 1..Len(pipeline.result) :
            LET d == pipeline.result[i]
                id == d.entityId
                area == IF GatewayArea(id) = {} THEN NullStr
                        ELSE CHOOSE a \in GatewayArea(id) : TRUE
            IN /\ Prefers(d.name, "name", id, GatewayName(id))
               /\ Prefers(d.areaName, "area", id, area)
               /\ Prefers(d.area, "area", id, area)
               /\ Prefers(d.label, "label", id, GatewayLabel(id))

\* The light, which the gateway calls Lamp, places in the kitchen and labels
\* Blind, has an override with a name and an area and no label: it resolved
\* to the override's name and area and the gateway's label.
C17_Witness ==
    /\ Resolved
    /\ pipeline.metaOk
    /\ gateway.principal.role = "ADMIN"
    /\ gateway.meta[1].area_name = Kitchen
    /\ gateway.meta[1].labels = <<<<"Blind">>>>
    /\ gateway.overrides =
         <<[entityId |-> LightA, name |-> <<"Desk">>, area |-> Bedroom, label |-> NullStr]>>
    /\ pipeline.result[1].name = <<"Desk">>
    /\ pipeline.result[1].areaName = Bedroom
    /\ pipeline.result[1].label = <<"Blind">>
    /\ pipeline.result[2].name = CoverB

\* The template call of the fetch has failed.
TemplateFailed ==
    pipeline.pc \in {"overrides", "done", "failed"}
    /\ Len(pipeline.trace) = 5 /\ ~pipeline.metaOk

\* C18: when the metadata template call fails after the state listing
\* succeeded, the fetch goes on to the override lookup instead of failing,
\* with one device per state that has areaName null, no labels, deviceId
\* null and the labelCategory of its domain; it fails only if the override
\* lookup does, and otherwise returns the devices.
C18_TemplateFailureDegrades ==
    TemplateFailed =>
        /\ Len(pipeline.enriched) = Len(gateway.states)
        /\ \A i \in 1..Len(gateway.states) :
              LET d == pipeline.enriched[i]
                  id == gateway.states[i].entity_id
              IN /\ d.entityId = id
                 /\ d.areaName = NullStr
                 /\ d.labels = <<>>
                 /\ d.deviceId = NullStr
                 /\ d.labelCategory = classifyDeviceByLabel(<<beforeDot(id)>>)
        /\ pipeline.pc = "failed" => pipeline.error = "override query failed"
        /\ pipeline.pc = "done" /\ gateway.overrides = <<>> =>
              \A i \in 1..Len(pipeline.result) :
                  /\ pipeline.result[i].areaName = NullStr
                  /\ pipeline.result[i].labels = <<>>
                  /\ pipeline.result[i].deviceId = NullStr

\* An admin's fetch whose template call failed, although the gateway has an
\* area, a label and a device id for the light, returned both devices, the
\* light classified by its domain.
C18_Witness ==
    /\ TemplateFailed
    /\ pipeline.pc = "done"
    /\ gateway.principal.role = "ADMIN"
    /\ gateway.overrides = <<>>
    /\ gateway.meta[1].area_name = Kitchen
    /\ gateway.meta[1].labels = <<<<"Blind">>>>
    /\ gateway.meta[1].device_id = <<"dev1">>
    /\ Len(pipeline.result) = 2
    /\ pipeline.result[1].labelCategory = <<"Light">>
    /\ pipeline.result[1].areaName = NullStr

\* The connection the first admin designates: the admin's explicit
\* connection id, else the connection the admin owns.
Designated ==
    IF backend.adminConn # NoConnection THEN backend.adminConn ELSE backend.adminOwned
AdminDesignates ==
    /\ backend.adminExists
    /\ Designated # NoConnection
    /\ Designated \in backend.connections

NoAdminConnectionFound ==
    \/ ~backend.adminExists
    \/ backend.adminConn = NoConnection /\ backend.adminOwned = NoConnection

\* C20: for a tenant, when no admin connection can be found the resolution
\* does not return: it fails with an error, whatever explicit connection
\* id the tenant itself holds.
C20_NoAdminConnectionFails ==
    resolution.role = "TENANT" /\ NoAdminConnectionFound =>
        /\ resolution.pc # "done"
        /\ resolution.pc \notin {"user", "own", "admins", "adminOwned"} =>
              resolution.pc = "failed" /\ resolution.error # NoError

Dispatched == dispatch.ha /\ dispatch.pc # "idle"
NeedsNumber == dispatch.command \in {"light/set_brightness", "media/volume_set"}

\* C22: a brightness-set or volume-set command whose value is not a number
\* fails with the validation error and has made no network call, neither the
\* state read nor a service call.
C22_NumericValidatedFirst ==
    Dispatched /\ NeedsNumber /\ dispatch.value.type # "number" =>
        /\ dispatch.pc = "done"
        /\ dispatch.error = Failure("Command requires numeric value", 0)
        /\ dispatch.trace = <<>>

\* media/volume_set without a value was rejected.
C22_Witness ==
    /\ Dispatched
    /\ dispatch.command = "media/volume_set"
    /\ dispatch.value = Undefined
    /\ dispatch.pc = "done"
    /\ dispatch.alert = "Action failed"
    /\ dispatch.trace = <<>>

IsLight == dispatch.entityId[1] = "light" /\ dispatch.entityId[2] = "."
StateReadFailed == dispatch.error.message \in {"HA network error", "HA API error"}

\* C23: light/toggle first reads the entity's remote state and then issues
\* one service call decided by that state alone: for a light entity
\* light.turn_off if the state read is "on" and light.turn_on otherwise, for
\* an entity of another domain homeassistant.toggle; without the state (the
\* read failed) it issues none.
C23_ToggleFollowsRemoteState ==
    Dispatched /\ dispatch.command = "light/toggle" =>
        /\ Len(dispatch.trace) \in {1, 2}
        /\ dispatch.trace[1] = StateRead(dispatch.entityId)
        /\ Len(dispatch.trace) = 1 => dispatch.pc = "state" \/ StateReadFailed
        /\ Len(dispatch.trace) = 2 =>
              LET call == dispatch.trace[2] IN
              /\ call.kind = "service"
              /\ call.entity_id = dispatch.entityId
              /\ IF IsLight
                 THEN /\ call.domain = "light"
                      /\ call.service = "turn_off" <=> dispatch.currentState = "on"
                      /\ call.service = "turn_on" <=> dispatch.currentState # "on"
                 ELSE call.domain = "homeassistant" /\ call.service = "toggle"

\* The card's cached state of the light was "on" while the gateway's was
\* "off": light.turn_on was issued.
C23_Witness ==
    /\ Dispatched
    /\ dispatch.command = "light/toggle"
    /\ dispatch.entityId = LightA
    /\ dispatch.cached = "on"
    /\ dispatch.currentState = "off"
    /\ Len(dispatch.trace) = 2
    /\ dispatch.trace[2].service = "turn_on"

\* C24: media/volume_set with a numeric value v (a percentage) sends the
\* volume_level v / 100 clamped to [0, 1]: 0 for v <= 0, 1 for v >= 100
\* (150 gives 1), and v / 100 in between.
C24_VolumeClamped ==
    /\ Dispatched
    /\ dispatch.command = "media/volume_set"
    /\ dispatch.value.type = "number"
    /\ Len(dispatch.trace) = 2
    => LET call == dispatch.trace[2]
           v == dispatch.value.n
       IN /\ call.domain = "media_player" /\ call.service = "volume_set"
          /\ call.key = "volume_level"
          /\ v <= 0 => Same(call.n, Ratio(0, 1))
          /\ v >= 100 => Same(call.n, Ratio(1, 1))
          /\ 0 < v /\ v < 100 => Same(call.n, Ratio(v, 100))

\* media/volume_set with value 150 sent volume_level 1.
C24_Witness ==
    /\ Dispatched
    /\ dispatch.command = "media/volume_set"
    /\ dispatch.value = Number(150)
    /\ Len(dispatch.trace) = 2
    /\ Same(dispatch.trace[2].n, Ratio(1, 1))

\* The command table: the service domain and name of a supported command
\* for a remote state.
TableDomain(command) ==
    CASE command \in {"blind/open", "blind/close"} -> "cover"
      [] command \in {"boiler/temp_up", "boiler/temp_down"} -> "climate"
      [] command = "light/set_brightness" -> "light"
      [] command = "light/toggle" -> IF IsLight THEN "light" ELSE "homeassistant"
      [] OTHER -> "media_player"
TableService(command, state) ==
    CASE command = "light/toggle" ->
           IF ~IsLight THEN "toggle" ELSE IF state = "on" THEN "turn_off" ELSE "turn_on"
      [] command = "light/set_brightness" -> "turn_on"
      [] command = "blind/open" -> "open_cover"
      [] command = "blind/close" -> "close_cover"
      [] command = "media/play_pause" ->
           IF state = "playing" THEN "media_pause" ELSE "media_play"
      [] command = "media/next" -> "media_next_track"
      [] command = "media/previous" -> "media_previous_track"
      [] command = "media/volume_up" -> "volume_up"
      [] command = "media/volume_down" -> "volume_down"
      [] command = "media/volume_set" -> "volume_set"
      [] command \in {"boiler/temp_up", "boiler/temp_down"} -> "set_temperature"
      [] command \in {"tv/toggle_power", "speaker/toggle_power"} ->
           IF state \in {"off", "standby"} THEN "turn_on" ELSE "turn_off"
Supported == dispatch.command \in Commands \ {"vacuum/start"}
\* The remote state was read and the dispatcher acted on it.
Decided ==
    Dispatched /\ dispatch.pc \in {"service", "done"}
    /\ dispatch.trace # <<>> /\ ~(Len(dispatch.trace) = 1 /\ StateReadFailed)

\* C25 as stated: once the remote state is read, every supported command has
\* issued exactly one service call with the service domain and name of the
\* command table.
C25_EveryCommandIssuesOneCall ==
    Decided /\ Supported =>
        /\ Len(dispatch.trace) = 2
        /\ dispatch.trace[2].kind = "service"
        /\ dispatch.trace[2].domain = TableDomain(dispatch.command)
        /\ dispatch.trace[2].service =
             TableService(dispatch.command, dispatch.currentState)

\* C25, amended: once the remote state is read, a supported command has
\* issued exactly one service call, for the entity, with the service domain
\* and name the command table gives for that state, except that
\* light/set_brightness on an entity that is not a light fails with an error
\* and issues no service call.
C25_CommandTable ==
    Decided /\ Supported =>
        IF dispatch.command = "light/set_brightness" /\ ~IsLight
        THEN /\ Len(dispatch.trace) = 1
             /\ dispatch.error = Failure("Brightness supported only for lights", 0)
        ELSE /\ Len(dispatch.trace) = 2
             /\ dispatch.trace[2].kind = "service"
             /\ dispatch.trace[2].entity_id = dispatch.entityId
             /\ dispatch.trace[2].domain = TableDomain(dispatch.command)
             /\ dispatch.trace[2].service =
                  TableService(dispatch.command, dispatch.currentState)

\* tv/toggle_power on a player in standby issued media_player.turn_on.
C25_Witness ==
    /\ Decided
    /\ dispatch.command = "tv/toggle_power"
    /\ dispatch.currentState = "standby"
    /\ Len(dispatch.trace) = 2
    /\ dispatch.trace[2].domain = "media_player"
    /\ dispatch.trace[2].service = "turn_on"

ServiceCalls(d) == {i \in 1..Len(d.trace) : d.trace[i].kind = "service"}

\* C26: a command outside the table ends, once the state is read, with the
\* 'unsupported command' error and never issues a service call; a service
\* call answered with a non-2xx status ends the command with an error that
\* carries that status; and a command that ended with an error has not
\* triggered the refresh that follows a command.
C26_FailuresDoNotRefresh ==
    [][/\ Dispatched' /\ ~Supported' =>
             /\ ServiceCalls(dispatch') = {}
             /\ dispatch'.pc = "done" /\ ~StateReadFailed' =>
                    dispatch'.error = Failure("Unsupported command", 0)
       /\ \A status \in HttpStatuses \ {0} :
             ServiceReturns(status) /\ ~ok(status) =>
                 /\ dispatch'.pc = "done"
                 /\ dispatch'.error = Failure("HA service error", status)
       /\ dispatch'.error # NoFailure => dispatch'.refreshes = 0
       /\ dispatch'.refreshes \in {0, 1}]_vars

\* A service call was answered with status 500: the command failed with
\* that status, the card alerted, and no refresh followed.
C26_Witness ==
    /\ Dispatched
    /\ dispatch.pc = "done"
    /\ Len(dispatch.trace) = 2
    /\ dispatch.error = Failure("HA service error", 500)
    /\ dispatch.alert = "Action failed"
    /\ dispatch.refreshes = 0

\* Whenever no fetch of a key is unsettled, inFlight has no entry for it.
NoStaleInFlight == \A k \in Keys : Unsettled(k) = {} => inFlight[k] = 0
\* A foreground refresh of a key without an unsettled fetch starts a fetch.
RetryStartsFetch ==
    LET k == cacheKey(sessionUser, haMode) IN
    HandleRefresh /\ Unsettled(k) = {} =>
        \E r \in 1..MaxRequests :
            /\ requests[r].st = "free"
            /\ requests'[r] = [key |-> k, st |-> "net", entry |-> NoEntry]
            /\ inFlight'[k] = r
            /\ \A c \in Started : c.req = r
Quiet == calls = <<>> /\ \A r \in 1..MaxRequests : requests[r].st = "free"

\* C27: whenever no fetch of a key is unsettled the in-flight map has no
\* entry for the key, so a refresh issued once a fetch, failed or not, has
\* settled starts a new fetch; and, given that every network and storage
\* call returns, every refresh that was started settles.
C27_FailuresLeaveKeyRetryable ==
    /\ []NoStaleInFlight
    /\ [][RetryStartsFetch]_vars
    /\ []<>Quiet
    /\ \A r \in 1..MaxRequests : requests[r].st # "free" ~> requests[r].st = "free"

\* After a fetch of the key failed (the hook shows its error), a fetch of
\* the key is outstanding again and registered in the in-flight map.
C27_Witness ==
    LET k == cacheKey(sessionUser, haMode) IN
    /\ error = FetchError
    /\ inFlight[k] # 0
    /\ requests[inFlight[k]].st = "net"
    /\ Cardinality(Unsettled(k)) = 1

ProbeSettled == transport.caller = "probe" /\ transport.pc = "settled"

\* C28: a probe always ends with a verdict, never with an error: reachable
\* for an HTTP response of any status, unreachable for a network failure or
\* a timeout.
C28_ProbeNeverThrows ==
    ProbeSettled =>
        /\ transport.probe \in {"reachable", "unreachable"}
        /\ transport.result = "response" => transport.probe = "reachable"
        /\ transport.result = "error" =>
              /\ transport.probe = "unreachable"
              /\ transport.reason \in {"network", "abort", "timeout"}

\* A probe answered with status 500 reported reachable.
C28_Witness ==
    /\ ProbeSettled
    /\ transport.result = "response"
    /\ transport.status = 500
    /\ transport.probe = "reachable"

\* C29: once a gateway call has timed out, no request of the call is
\* outstanding, with or without AbortController.
C29_TimeoutAbortsRequest ==
    (transport.pc = "settled" /\ transport.reason \in {"abort", "timeout"})
        => transport.request # "open"

\* C30: while the dashboard stays mounted, a step in which only refresh
\* calls issued for a key other than the observed (userId, mode) return,
\* foreground or background, leaves devices, lastUpdated and error as they
\* were.
Observed == cacheKey(sessionUser, haMode)
C30_PreviousKeyChangesNothing ==
    [][(/\ mounted
        /\ Continued # {}
        /\ \A c \in Continued : c.key # Observed
        /\ Len(calls') < Len(calls)
        /\ sessionUser' = sessionUser /\ haMode' = haMode)
       => UNCHANGED <<devices, lastUpdated, error>>]_vars

\* A clear of key k that has deleted the in-memory entry and is waiting for
\* its removeKey.
ClearPending(k) ==
    \/ \E t \in toggles : cacheKey(t.user, t.mode) = k
    \/ sessOp # NoOp
\* A fetch started before a clear of its key that has completed: the clear
\* dropped its in-flight registration (line 202) and is no longer pending.
StartedBeforeClear(r) ==
    /\ requests[r].st = "net"
    /\ inFlight[requests[r].key] # r
    /\ ~ClearPending(requests[r].key)

\* C31: a fetch started before a clear of its key that has completed creates
\* no in-memory entry for the key when it resolves.
C31_ClearNotUndone ==
    [][\A r \in 1..MaxRequests :
          StartedBeforeClear(r) /\ Resolves(r) =>
              memoryCache'[requests[r].key] = memoryCache[requests[r].key]]_vars

\* C32: the return of a storage load never lowers the updatedAt of the
\* in-memory entry of its key nor, for the observing consumer, the visible
\* lastUpdated: a loaded snapshot does not replace a newer entry.
C32_LoadOnlySeeds ==
    [][\A l \in loads :
          LoadDone(l) =>
              /\ memoryCache'[l.key].updatedAt >= memoryCache[l.key].updatedAt
              /\ lastUpdated' >= lastUpdated]_vars

\* No fetch, refresh call, storage load, toggle clear or session operation
\* is outstanding.
Quiescent ==
    /\ Quiet
    /\ loads = {}
    /\ toggles = {}
    /\ sessOp = NoOp

\* C33: at quiescence, with a storage that never fails, every key whose
\* in-memory entry was written by a refresh (it is not the snapshot found in
\* storage at the start) has that same entry persisted.
C33_QuiescentStorageAgrees ==
    (Quiescent /\ ~storageFaulty) =>
        \A k \in Keys :
            memoryCache[k] \notin StartSnapshots => storage[k] = memoryCache[k]

\* The non-background refreshDevices call started last by the mounted hook,
\* while it has not returned.
NewestForeground(c) == c.live /\ ~c.silent /\ c.reqId = requestIdRef
\* A step that only starts or continues background calls.
OnlyBackground(cs) == cs # {} /\ \A c \in cs : c.silent

RefreshingWhileOutstanding ==
    mounted /\ refreshing => \E c \in Range(calls) : NewestForeground(c)
BackgroundLeavesFlag ==
    (/\ OnlyBackground(Started \cup Continued)
     /\ sessionUser' = sessionUser /\ haMode' = haMode)
    => refreshing' = refreshing
PollLeavesFlag == PollTick => refreshing' = refreshing
NewestSettles ==
    \A c \in Range(calls) :
        (/\ NewestForeground(c)
         /\ \A d \in Range(calls') : d.silent \/ d.reqId # c.reqId)
        => ~refreshing'

\* C34: while the hook is mounted, refreshing is true only while the newest
\* non-background refresh has not returned; steps of background calls and
\* polling ticks leave the flag alone; the step in which the newest
\* non-background refresh returns leaves it false; and, every network and
\* storage call returning, a true flag becomes false.
C34_RefreshingFlag ==
    /\ []RefreshingWhileOutstanding
    /\ [][BackgroundLeavesFlag /\ PollLeavesFlag /\ NewestSettles]_vars
    /\ (mounted /\ refreshing) ~> ~refreshing

\* C34 witness: a pull-to-refresh has settled and cleared the flag, and a
\* polling tick's background refresh is outstanding with the flag false.
C34_Witness ==
    /\ mounted /\ ~refreshing
    /\ requestIdRef >= 2
    /\ lastTick = "refreshed"
    /\ \E c \in Range(calls) : c.silent /\ c.pc = "await"

\* C35: in the step in which a mode toggle changes the session mode, so that
\* the hook starts observing the new key, the visible devices are empty,
\* lastUpdated is null and error is null.
C35_ToggleShowsEmpty ==
    [][(mounted /\ haMode' # haMode) =>
          /\ devices' = <<>>
          /\ lastUpdated' = NullTime
          /\ error' = NoError]_vars

\* C36: the refresh that follows a command is started in the step in which
\* the command's service call returns with a 2xx status, and in no other
\* step; a command that has triggered a refresh has issued its service call
\* and ended without an error.
ServiceSucceeds == \E status \in HttpStatuses : ok(status) /\ ServiceReturns(status)
C36_RefreshAfterSuccess ==
    [][/\ dispatch'.refreshes # dispatch.refreshes <=> ServiceSucceeds
       /\ ServiceSucceeds => dispatch'.refreshes = dispatch.refreshes + 1
       /\ dispatch'.refreshes > 0 =>
             /\ dispatch'.pc = "done"
             /\ dispatch'.error = NoFailure
             /\ ServiceCalls(dispatch') # {}]_vars

\* A blind was opened: the service call succeeded and one refresh followed.
C36_Witness ==
    /\ Dispatched
    /\ dispatch.command = "blind/open"
    /\ dispatch.pc = "done"
    /\ dispatch.error = NoFailure
    /\ Len(dispatch.trace) = 2
    /\ dispatch.refreshes = 1

\* The label set the claim calls effective: the override label alone when
\* the override has a non-empty one, else the gateway labels.
OverrideLabels(id) == {o.label : o \in OverrideOf(id)} \ {NullStr, <<>>}
EffectiveLabels(id) ==
    IF OverrideLabels(id) # {} THEN <<CHOOSE l \in OverrideLabels(id) : TRUE>>
    ELSE GatewayLabels(id)

\* C37: in a resolved list each device's labelCategory is the category of
\* its effective label set and, when that set yields none, the category of
\* its domain.
C37_LabelCategory ==
    Resolved =>
        \A i \in 1..Len(pipeline.result) :
            LET d == pipeline.result[i] IN
            d.labelCategory =
                orElse(classifyDeviceByLabel(EffectiveLabels(d.entityId)),
                       classifyDeviceByLabel(<<beforeDot(d.entityId)>>))

\* C38: once the remote state is read, light/set_brightness on an entity
\* that is not a light has failed with the brightness error without a
\* service call; on a light it has issued light.turn_on for the entity with
\* brightness_pct 0 for a value <= 0, 100 for a value >= 100 and the value
\* itself in between.
C38_BrightnessClamped ==
    Decided /\ dispatch.command = "light/set_brightness" =>
        IF ~IsLight
        THEN /\ dispatch.pc = "done"
             /\ dispatch.error = Failure("Brightness supported only for lights", 0)
             /\ ServiceCalls(dispatch) = {}
        ELSE /\ Len(dispatch.trace) = 2
             /\ LET call == dispatch.trace[2]
                    v == dispatch.value.n
                IN /\ call = ServiceCall("light", "turn_on", dispatch.entityId,
                                         "brightness_pct", call.n)
                   /\ v <= 0 => Same(call.n, Ratio(0, 1))
                   /\ v >= 100 => Same(call.n, Ratio(100, 1))
                   /\ 0 < v /\ v < 100 => Same(call.n, Ratio(v, 1))

\* light/set_brightness with value 150 on the light sent brightness_pct 100.
C38_Witness ==
    /\ Decided
    /\ dispatch.command = "light/set_brightness"
    /\ dispatch.entityId = LightA
    /\ dispatch.value = Number(150)
    /\ Len(dispatch.trace) = 2
    /\ Same(dispatch.trace[2].n, Ratio(100, 1))

\* The temperature the attributes of a state carry: `temperature`, else
\* `current_temperature`, else none.
Carried(attrs) ==
    IF attrs.temperature # <<>> THEN attrs.temperature
    ELSE attrs.current_temperature

\* C39: in the step in which the state read returns, boiler/temp_up and
\* boiler/temp_down issue climate.set_temperature for the entity with the
\* temperature that state's attributes carry, 20 when they carry none, plus
\* one and minus one respectively.
C39_BoilerStep ==
    [][\A state \in RemoteStates, attrs \in Attributes :
          (/\ StateReturns(state, attrs)
           /\ dispatch.command \in {"boiler/temp_up", "boiler/temp_down"})
          => LET base == IF Carried(attrs) = <<>> THEN 20 ELSE Carried(attrs)[1]
                 target == IF dispatch.command = "boiler/temp_up"
                           THEN base + 1 ELSE base - 1
             IN /\ dispatch'.pc = "service"
                /\ Len(dispatch'.trace) = 2
                /\ dispatch'.trace[2] =
                     ServiceCall("climate", "set_temperature", dispatch.entityId,
                                 "temperature", Ratio(target, 1))]_vars

\* boiler/temp_down sent temperature 19: the attributes carried none.
C39_Witness ==
    /\ Dispatched
    /\ dispatch.command = "boiler/temp_down"
    /\ Len(dispatch.trace) = 2
    /\ dispatch.trace[2].service = "set_temperature"
    /\ dispatch.trace[2].n = Ratio(19, 1)

\* C40: the mode is 'home' at the start; every step that logs a user in or
\* out, switches the user or applies a session for the same user leaves it
\* 'home'; it is 'home' as long as nobody is logged in; and it becomes
\* 'cloud' only in the step that completes a mode toggle to cloud.
SessionApplied ==
    \/ sessionUser' # sessionUser
    \/ ClearSession
    \/ \E u \in Users : u = sessionUser /\ SetSession(u)
ModeSetBySession == SessionApplied => haMode' = "home"
CloudOnlyByToggle ==
    (haMode' = "cloud" /\ haMode = "home") =>
        \E t \in toggles : t.mode = "cloud" /\ ToggleClearDone(t)
C40_ModeHomeUnlessToggled ==
    /\ haMode = "home"
    /\ [](sessionUser = NoUser => haMode = "home")
    /\ [][ModeSetBySession /\ CloudOnlyByToggle]_vars

====
